---------------------------- MODULE Spec2Model ----------------------------
(***************************************************************************)
(* Order-processing domain core of 객체지향/장고객체지향/빡센거.py:            *)
(* Money, the Order aggregate, the event bus, the in-memory unit of work,  *)
(* the retry decorator and OrderService.                                   *)
(*                                                                         *)
(* A Python call that raises is modelled by a result record whose ok field *)
(* is FALSE; the record also carries the object as the call left it, since *)
(* a method that raises half way keeps the assignments made before.        *)
(***************************************************************************)
EXTENDS Integers, Sequences, FiniteSets, TLC

VARIABLES
    agg,        \* one Order object driven directly through its methods
    aggRet,     \* outcome of the last method call on agg
    busHandlers, \* EventBus._handlers: event type -> handlers, in subscription order
    busLog,     \* handler invocations of the last publish, in order
    busRet,     \* outcome of the last call on the bus
    uow,        \* one InMemoryUnitOfWork instance, entered and left repeatedly
    uowLog,     \* handler invocations made by the last __exit__ of uow
    uowRet,     \* outcome of the last call on uow
    orders,     \* InMemoryOrderRepository._store: order id -> Order
    customers,  \* InMemoryCustomerRepository._store: customer id -> Customer
    inventory,  \* InMemoryInventoryRepository._store: sku -> quantity
    idem,       \* OrderService._idempotency_store: idem_key -> payment id
    charges,    \* invocations of the gateway's charge that returned, in order
    gatewayCalls, \* number of invocations of the gateway's charge, raising ones included
    promoRuns,  \* order id -> discounts apply_promotions has applied to it
    delivered,  \* event -> times it was handed to a subscriber of the bus
    svcRet,     \* outcome of the last OrderService call
    thr,        \* threads inside checkout: thread -> its position and locals
    invItem,    \* quantity of one InventoryItem driven directly
    invItemRet, \* outcome of the last method call on invItem
    repoKind,   \* which in-memory repository is driven directly
    repoStore,  \* its _store: id -> the mutable fields of the stored object
    repoCache,  \* the cache of lru_cache_simple around its get: id -> result
    held,       \* the entity object the caller of the repository holds
    repoRet,    \* outcome of the last call on the repository
    promoArgs,  \* a CompositePromotion, an order and a customer
    promoRet,   \* outcome of discount_for on promoArgs
    moneyArgs,  \* operands of one Money operation
    moneyRet,   \* outcome of the operation on moneyArgs
    db,         \* the database of tx_basic.py: Product stock, Order and OrderItem rows
    emitted,    \* orders emit_order_created was called for, in order
    txRet,      \* outcome of the last create_order of tx_basic.py
    rsv,        \* threads inside add_item: thread -> its position and locals
    twin,       \* two services given the same calls: pricing strategy -> its state
    twinRet,    \* the last call given to both, and each one's outcome
    lru,        \* one function wrapped by lru_cache_simple: its cache and order
    lruUsed,    \* the keys looked up so far, least recently looked up first
    lruRet      \* the last lookup through the wrapper and its outcome

aggVars == <<agg, aggRet>>
busVars == <<busHandlers, busLog, busRet>>
uowVars == <<uow, uowLog, uowRet>>
svcVars == <<orders, customers, inventory, idem, charges, gatewayCalls, promoRuns,
             delivered, svcRet>>

raceVars == <<thr>>
itemVars == <<invItem, invItemRet>>
\* the components driven on their own, apart from the aggregate, the bus
\* and the unit of work
repoVars == <<repoKind, repoStore, repoCache, held, repoRet>>
promoVars == <<promoArgs, promoRet>>
moneyVars == <<moneyArgs, moneyRet>>
txVars == <<db, emitted, txRet>>
rsvVars == <<rsv>>
twinVars == <<twin, twinRet>>
lruVars == <<lru, lruUsed, lruRet>>
compVars == <<itemVars, repoVars, promoVars, moneyVars, txVars, rsvVars, twinVars,
              lruVars>>

vars == <<aggVars, busVars, uowVars, svcVars, raceVars, compVars>>

-----------------------------------------------------------------------------
(* Bounds of the model                                                     *)

\* longest line list an order is driven to
MaxLines == 2
\* maxsize the cache decorator is driven with
MaxCacheSize == 2
\* longest event list the directly driven order is driven to
MaxEvents == 3
\* most handlers subscribed to one event type
MaxHandlers == 2
\* longest event list handed to publish
MaxPublish == 2
\* most lines an order gets through the service
MaxItems == 1
\* most invocations of the gateway that raise
MaxGatewayFailures == 3
\* most discounts apply_promotions applies to one order
MaxPromotions == 2
\* largest quantity the directly driven inventory item is driven to
MaxStock == 10
\* most changes made to the fields of entity objects of a repository
MaxData == 2
\* longest list of specifications of a CompositePromotion built directly
MaxSpecs == 2
\* largest amount of a Money operand
MaxAmount == 3
\* most Order rows the transactional create_order is driven to
MaxOrderRows == 1
\* most items in one request to the transactional create_order
MaxTxItems == 2
\* largest stock of a Product row at the start
MaxTxStock == 2

-----------------------------------------------------------------------------
(* Money                                                                   *)

Raise(msg) == [ok |-> FALSE, err |-> msg]

\* int(round(n * num / den)): Python rounds halves to even, \div rounds down
RoundHalfEven(n, num, den) ==
    LET q == (n * num) \div den
        r == (n * num) % den
    IN  IF 2 * r < den THEN q
        ELSE IF 2 * r > den THEN q + 1
        ELSE IF q % 2 = 0 THEN q ELSE q + 1

\* mutant: Money without __post_init__
Money_unchecked(amount, currency) ==
    [ok |-> TRUE, v |-> [amount |-> amount, currency |-> currency]]

\* Money(amount, currency): __post_init__ rejects a negative amount
Money(amount, currency) ==
    IF amount < 0
    THEN Raise("Money must be non-negative")
    ELSE [ok |-> TRUE, v |-> [amount |-> amount, currency |-> currency]]

Money_zero == [amount |-> 0, currency |-> "KRW"]

Money_add(a, b) ==
    IF a.currency # b.currency
    THEN Raise("Currency mismatch")
    ELSE Money(a.amount + b.amount, a.currency)

Money_sub(a, b) ==
    IF a.currency # b.currency
    THEN Raise("Currency mismatch")
    ELSE IF b.amount > a.amount
         THEN Raise("Money subtraction would be negative")
         ELSE Money(a.amount - b.amount, a.currency)

\* Money * k for an integer k: int(round(amount * k)) is amount * k
Money_mul_int(a, k) == Money(a.amount * k, a.currency)

\* Money * k for k = pct / 100
Money_mul(a, pct) == Money(RoundHalfEven(a.amount, pct, 100), a.currency)

-----------------------------------------------------------------------------
(* Domain events                                                           *)

OrderSubmitted(oid) == [type |-> "OrderSubmitted", order_id |-> oid]
PaymentReceived(oid, pid) ==
    [type |-> "PaymentReceived", order_id |-> oid, payment_id |-> pid]
OrderShipped(oid, trk) ==
    [type |-> "OrderShipped", order_id |-> oid, tracking_no |-> trk]
OrderCanceled(oid, reason) ==
    [type |-> "OrderCanceled", order_id |-> oid, reason |-> reason]

-----------------------------------------------------------------------------
(* Order aggregate                                                         *)

OrderStatus == {"DRAFT", "SUBMITTED", "PAID", "SHIPPED", "CANCELED"}

\* Order(id=..., customer_id=...): the dataclass defaults
NewOrder(oid, cid) ==
    [id |-> oid, customer_id |-> cid, lines |-> <<>>, status |-> "DRAFT",
     subtotal |-> Money_zero, discount_total |-> Money_zero,
     grand_total |-> Money_zero, events |-> <<>>]

Product(sku, name, amount, currency, category) ==
    [sku |-> sku, name |-> name,
     price |-> [amount |-> amount, currency |-> currency], category |-> category]

OrderLine(product, qty) ==
    [sku |-> product.sku, name |-> product.name,
     unit_price |-> product.price, qty |-> qty]

line_total(l) == Money_mul_int(l.unit_price, l.qty)

\* the loop of _recalc_totals from line i on, subtotal so far acc: the
\* result carries the subtotal reached when an addition raises
RECURSIVE RecalcLoop(_, _, _)
RecalcLoop(lines, i, acc) ==
    IF i > Len(lines)
    THEN [ok |-> TRUE, subtotal |-> acc]
    ELSE LET lt == line_total(lines[i])
         IN  IF ~lt.ok
             THEN [ok |-> FALSE, err |-> lt.err, subtotal |-> acc]
             ELSE LET s == Money_add(acc, lt.v)
                  IN  IF ~s.ok
                      THEN [ok |-> FALSE, err |-> s.err, subtotal |-> acc]
                      ELSE RecalcLoop(lines, i + 1, s.v)

\* mutant: _recalc_totals leaving the discount out of the grand total
Order_recalc_totals_undiscounted(o) ==
    LET r == RecalcLoop(o.lines, 1, Money_zero)
    IN  [ok |-> r.ok, err |-> IF r.ok THEN "" ELSE r.err,
         o |-> [o EXCEPT !.subtotal = r.subtotal, !.grand_total = r.subtotal]]

Order_recalc_totals(o) ==
    LET r  == RecalcLoop(o.lines, 1, Money_zero)
        o1 == [o EXCEPT !.subtotal = r.subtotal]
    IN  IF ~r.ok
        THEN [ok |-> FALSE, err |-> r.err, o |-> o1]
        ELSE LET g == Money_sub(o1.subtotal, o1.discount_total)
             IN  IF ~g.ok
                 THEN [ok |-> FALSE, err |-> g.err, o |-> o1]
                 ELSE [ok |-> TRUE, err |-> "", o |-> [o1 EXCEPT !.grand_total = g.v]]

\* mutant: add_line without the DRAFT check
Order_add_line_any_status(o, product, qty) ==
    IF qty <= 0
    THEN [ok |-> FALSE, err |-> "qty must be positive", o |-> o]
    ELSE Order_recalc_totals(
             [o EXCEPT !.lines = Append(@, OrderLine(product, qty))])

Order_add_line(o, product, qty) ==
    IF o.status # "DRAFT"
    THEN [ok |-> FALSE, err |-> "Can only add lines in DRAFT", o |-> o]
    ELSE IF qty <= 0
         THEN [ok |-> FALSE, err |-> "qty must be positive", o |-> o]
         ELSE Order_recalc_totals(
                  [o EXCEPT !.lines = Append(@, OrderLine(product, qty))])

\* mutant: apply_discount without the comparison against the subtotal
Order_apply_discount_unchecked(o, discount) ==
    IF discount.amount < 0
    THEN [ok |-> FALSE, err |-> "negative discount", o |-> o]
    ELSE LET nd == Money_add(o.discount_total, discount)
         IN  IF ~nd.ok
             THEN [ok |-> FALSE, err |-> nd.err, o |-> o]
             ELSE Order_recalc_totals([o EXCEPT !.discount_total = nd.v])

Order_apply_discount(o, discount) ==
    IF discount.amount < 0
    THEN [ok |-> FALSE, err |-> "negative discount", o |-> o]
    ELSE LET nd == Money_add(o.discount_total, discount)
         IN  IF ~nd.ok
             THEN [ok |-> FALSE, err |-> nd.err, o |-> o]
             ELSE IF nd.v.amount > o.subtotal.amount
                  THEN [ok |-> FALSE, err |-> "discount exceeds subtotal", o |-> o]
                  ELSE Order_recalc_totals([o EXCEPT !.discount_total = nd.v])

\* mutant: submit without the empty-order check
Order_submit_empty_allowed(o) ==
    IF o.status # "DRAFT"
    THEN [ok |-> FALSE, err |-> "already submitted", o |-> o]
    ELSE [ok |-> TRUE, err |-> "",
          o |-> [o EXCEPT !.status = "SUBMITTED",
                          !.events = Append(@, OrderSubmitted(o.id))]]

Order_submit(o) ==
    IF o.lines = <<>>
    THEN [ok |-> FALSE, err |-> "empty order", o |-> o]
    ELSE IF o.status # "DRAFT"
         THEN [ok |-> FALSE, err |-> "already submitted", o |-> o]
         ELSE [ok |-> TRUE, err |-> "",
               o |-> [o EXCEPT !.status = "SUBMITTED",
                               !.events = Append(@, OrderSubmitted(o.id))]]

Order_mark_paid(o, payment_id) ==
    IF o.status # "SUBMITTED"
    THEN [ok |-> FALSE, err |-> "order not submitted", o |-> o]
    ELSE [ok |-> TRUE, err |-> "",
          o |-> [o EXCEPT !.status = "PAID",
                          !.events = Append(@, PaymentReceived(o.id, payment_id))]]

Order_ship(o, tracking_no) ==
    IF o.status # "PAID"
    THEN [ok |-> FALSE, err |-> "not paid", o |-> o]
    ELSE [ok |-> TRUE, err |-> "",
          o |-> [o EXCEPT !.status = "SHIPPED",
                          !.events = Append(@, OrderShipped(o.id, tracking_no))]]

\* mutant: cancel refused after shipping only
Order_cancel_after_paid(o, reason) ==
    IF o.status = "SHIPPED"
    THEN [ok |-> FALSE, err |-> "cannot cancel after payment/ship", o |-> o]
    ELSE [ok |-> TRUE, err |-> "",
          o |-> [o EXCEPT !.status = "CANCELED",
                          !.events = Append(@, OrderCanceled(o.id, reason))]]

Order_cancel(o, reason) ==
    IF o.status \in {"PAID", "SHIPPED"}
    THEN [ok |-> FALSE, err |-> "cannot cancel after payment/ship", o |-> o]
    ELSE [ok |-> TRUE, err |-> "",
          o |-> [o EXCEPT !.status = "CANCELED",
                          !.events = Append(@, OrderCanceled(o.id, reason))]]

-----------------------------------------------------------------------------
(* Event bus                                                               *)

EventTypes == {"OrderSubmitted", "PaymentReceived", "OrderShipped", "OrderCanceled"}

\* EventBus(): no handler for any type (handlers.get(t, []) is empty)
EventBus_init == [t \in EventTypes |-> <<>>]

EventBus_subscribe(handlers, event_type, handler) ==
    [handlers EXCEPT ![event_type] = Append(@, handler)]

\* the subscribers of bootstrap_services only log; a subscriber whose name
\* starts a failing callback raises on every event
HandlerRaises(h) == h = "h_failing"

\* h(e) inside try/except: the invocation, and whether it raised
HandlerCall(h, e) == [handler |-> h, event |-> e, raised |-> HandlerRaises(h)]

\* the inner loop of publish from handler j on: an exception of a handler is
\* caught and logged, the loop goes on
RECURSIVE PublishHandlers(_, _, _, _)
PublishHandlers(hs, j, e, log) ==
    IF j > Len(hs)
    THEN log
    ELSE PublishHandlers(hs, j + 1, e, Append(log, HandlerCall(hs[j], e)))

RECURSIVE PublishEvents(_, _, _, _)
PublishEvents(handlers, events, i, log) ==
    IF i > Len(events)
    THEN log
    ELSE PublishEvents(handlers, events, i + 1,
             PublishHandlers(handlers[events[i].type], 1, events[i], log))

\* mutant: no try/except around h(e), the first raising handler ends publish
RECURSIVE PublishUnprotected(_, _, _, _, _)
PublishUnprotected(handlers, events, i, j, log) ==
    IF i > Len(events)
    THEN [ok |-> TRUE, err |-> "", log |-> log]
    ELSE IF j > Len(handlers[events[i].type])
         THEN PublishUnprotected(handlers, events, i + 1, 1, log)
         ELSE LET c == HandlerCall(handlers[events[i].type][j], events[i])
              IN  IF c.raised
                  THEN [ok |-> FALSE, err |-> "handler error", log |-> Append(log, c)]
                  ELSE PublishUnprotected(handlers, events, i, j + 1, Append(log, c))

EventBus_publish_unprotected(handlers, events) ==
    PublishUnprotected(handlers, events, 1, 1, <<>>)

\* publish(events): the invocations made, in order; it never raises
EventBus_publish(handlers, events) ==
    [ok |-> TRUE, err |-> "", log |-> PublishEvents(handlers, events, 1, <<>>)]

-----------------------------------------------------------------------------
(* Unit of work                                                            *)

\* the subscriptions bootstrap_services makes: one logging handler per type
BootHandlers ==
    [t \in EventTypes |->
        CASE t = "OrderSubmitted"  -> <<"on_order_submitted">>
          [] t = "PaymentReceived" -> <<"on_payment_received">>
          [] t = "OrderShipped"    -> <<"on_order_shipped">>
          [] t = "OrderCanceled"   -> <<"on_order_canceled">>]

\* InMemoryUnitOfWork(...): the fields that change
UoW_new == [events |-> <<>>, active |-> FALSE]

UoW_enter(u) == [u EXCEPT !.active = TRUE, !.events = <<>>]

\* commit: flush the accumulated events to the bus, then clear them
UoW_commit(u, handlers) ==
    [u |-> [u EXCEPT !.events = <<>>],
     log |-> EventBus_publish(handlers, u.events).log,
     rolled_back |-> FALSE]

\* rollback: logs only
UoW_rollback(u) == [u |-> u, log |-> <<>>, rolled_back |-> TRUE]

\* mutant: __exit__ commits whatever the way the scope was left
UoW_exit_always_commits(u, handlers, exc) ==
    LET r == UoW_commit(u, handlers)
    IN  [u |-> [r.u EXCEPT !.active = FALSE], log |-> r.log,
         rolled_back |-> r.rolled_back, raised |-> exc]

\* __exit__(exc_type, ...): exc is "" when the body returned; __exit__
\* returns None, so the body's exception goes on to the caller
UoW_exit(u, handlers, exc) ==
    LET r == IF exc # "" THEN UoW_rollback(u) ELSE UoW_commit(u, handlers)
    IN  [u |-> [r.u EXCEPT !.active = FALSE], log |-> r.log,
         rolled_back |-> r.rolled_back, raised |-> exc]

-----------------------------------------------------------------------------
(* Promotion specifications                                                *)

Min(a, b) == IF a <= b THEN a ELSE b

\* sum(l.qty for l in lines)
RECURSIVE SumQty(_)
SumQty(lines) == IF lines = <<>> THEN 0 ELSE Head(lines).qty + SumQty(Tail(lines))

\* MinAmountSpec(threshold, rate = ratePct / 100).discount
MinAmountSpec_discount(threshold, ratePct, order) ==
    IF order.subtotal.amount >= threshold
    THEN RoundHalfEven(order.subtotal.amount, ratePct, 100)
    ELSE 0

\* FirstPurchaseSpec(fixed_amount).discount
FirstPurchaseSpec_discount(fixed_amount, customer) ==
    IF ~customer.first_purchase_done THEN fixed_amount ELSE 0

\* CategoryBundleSpec(category, free_qty).discount: the unit price of the
\* cheapest line, the first of the cheapest ones for min()
CategoryBundleSpec_discount(free_qty, order) ==
    LET total_qty == SumQty(order.lines)
        cheapest  == CHOOSE k \in 1..Len(order.lines) :
                        \A j \in 1..Len(order.lines) :
                            \/ order.lines[k].unit_price.amount < order.lines[j].unit_price.amount
                            \/ /\ order.lines[k].unit_price.amount = order.lines[j].unit_price.amount
                               /\ k <= j
    IN  IF total_qty < free_qty \/ order.lines = <<>>
        THEN Money_zero
        ELSE order.lines[cheapest].unit_price

\* the specifications as values
MinAmountSpec(threshold, ratePct) ==
    [kind |-> "MinAmountSpec", threshold |-> threshold, ratePct |-> ratePct,
     fixed_amount |-> Money_zero, free_qty |-> 0]
FirstPurchaseSpec(fixed_amount) ==
    [kind |-> "FirstPurchaseSpec", threshold |-> 0, ratePct |-> 0,
     fixed_amount |-> fixed_amount, free_qty |-> 0]
CategoryBundleSpec(free_qty) ==
    [kind |-> "CategoryBundleSpec", threshold |-> 0, ratePct |-> 0,
     fixed_amount |-> Money_zero, free_qty |-> free_qty]

\* s.discount(order, customer)
PromotionSpec_discount(s, order, customer) ==
    CASE s.kind = "MinAmountSpec" ->
            [amount |-> MinAmountSpec_discount(s.threshold, s.ratePct, order),
             currency |-> "KRW"]
      [] s.kind = "FirstPurchaseSpec" ->
            [amount |-> FirstPurchaseSpec_discount(s.fixed_amount.amount, customer),
             currency |-> IF ~customer.first_purchase_done
                          THEN s.fixed_amount.currency ELSE "KRW"]
      [] s.kind = "CategoryBundleSpec" -> CategoryBundleSpec_discount(s.free_qty, order)

\* the loop of discount_for from specification i on, total so far given
RECURSIVE DiscountLoop(_, _, _, _, _)
DiscountLoop(specs, order, customer, i, total) ==
    IF i > Len(specs)
    THEN [ok |-> TRUE, v |-> total]
    ELSE LET t == Money_add(total, PromotionSpec_discount(specs[i], order, customer))
         IN  IF ~t.ok THEN t
             ELSE DiscountLoop(specs, order, customer, i + 1, t.v)

\* the promotions of bootstrap_services
MinAmountThreshold == 30000
MinAmountRatePct == 5
FirstPurchaseAmount == 3000
DiscountCapPct == 30

\* mutant: discount_for without the cap
CompositePromotion_discount_uncapped(specs, order, customer) ==
    DiscountLoop(specs, order, customer, 1, Money_zero)

\* CompositePromotion(specs).discount_for(order, customer)
CompositePromotion_discount(specs, order, customer) ==
    LET total == DiscountLoop(specs, order, customer, 1, Money_zero)
        cap   == RoundHalfEven(order.subtotal.amount, DiscountCapPct, 100)
    IN  IF ~total.ok THEN total
        ELSE Money(Min(total.v.amount, cap), "KRW")

\* the composite of bootstrap_services
BootPromotions ==
    <<MinAmountSpec(MinAmountThreshold, MinAmountRatePct),
      FirstPurchaseSpec([amount |-> FirstPurchaseAmount, currency |-> "KRW"])>>

\* self._promos.discount_for(order, customer) of the bootstrapped service:
\* both specifications give KRW, so the sum never raises
CompositePromotion_discount_for(order, customer) ==
    CompositePromotion_discount(BootPromotions, order, customer).v

-----------------------------------------------------------------------------
(* Repositories, inventory policy, payment gateway                         *)

\* Python call results: exc is "" when the call returned, else the
\* exception's type; w is the state of the repositories, the idempotency
\* store and the gateway as the call left it
Returned(w, ret, events) ==
    [exc |-> "", err |-> "", ret |-> ret, w |-> w, events |-> events]
Raised(w, exc, err, events) ==
    [exc |-> exc, err |-> err, ret |-> "", w |-> w, events |-> events]

\* the catalogue of bootstrap_services, and a stock small enough to run out
Catalog ==
    ("SKU-APPLE" :> Product("SKU-APPLE", "apple 1kg", 5500, "KRW", "fruit")) @@
    ("SKU-BEEF"  :> Product("SKU-BEEF", "beef 500g", 28900, "KRW", "meat")) @@
    ("SKU-MILK"  :> Product("SKU-MILK", "milk 1L", 2200, "KRW", "dairy"))
InitialStock == ("SKU-APPLE" :> 6) @@ ("SKU-BEEF" :> 2) @@ ("SKU-MILK" :> 3)
\* the stock of bootstrap_services
BootStock == ("SKU-APPLE" :> 50) @@ ("SKU-BEEF" :> 10) @@ ("SKU-MILK" :> 100)
InitialCustomers == ("CUST-001" :> [id |-> "CUST-001", first_purchase_done |-> FALSE])

\* mutant: reserve without the stock test
InventoryItem_reserve_unchecked(quantity, qty) ==
    IF qty <= 0 THEN [ok |-> FALSE, err |-> "qty must be positive", quantity |-> quantity]
    ELSE [ok |-> TRUE, err |-> "", quantity |-> quantity - qty]

\* InventoryItem.restock
InventoryItem_restock(quantity, qty) ==
    IF qty <= 0 THEN [ok |-> FALSE, err |-> "qty must be positive", quantity |-> quantity]
    ELSE [ok |-> TRUE, err |-> "", quantity |-> quantity + qty]

\* InventoryItem.reserve; quantity is the item's quantity field
InventoryItem_reserve(quantity, qty) ==
    IF qty <= 0 THEN [ok |-> FALSE, err |-> "qty must be positive", quantity |-> quantity]
    ELSE IF quantity < qty
         THEN [ok |-> FALSE, err |-> "insufficient inventory", quantity |-> quantity]
         ELSE [ok |-> TRUE, err |-> "", quantity |-> quantity - qty]

\* StrictInventoryPolicy.reserve: get a copy, reserve on it, update the store
StrictInventoryPolicy_reserve(store, sku, qty) ==
    IF sku \notin DOMAIN store
    THEN [ok |-> FALSE, err |-> "inventory missing", inventory |-> store]
    ELSE LET r == InventoryItem_reserve(store[sku], qty)
         IN  IF ~r.ok
             THEN [ok |-> FALSE, err |-> r.err, inventory |-> store]
             ELSE [ok |-> TRUE, err |-> "",
                   inventory |-> [store EXCEPT ![sku] = r.quantity]]

\* mutant: the lenient policy refusing a shortfall as the strict one does
LenientInventoryPolicy_reserve_strict(store, sku, qty) ==
    StrictInventoryPolicy_reserve(store, sku, qty)

\* LenientInventoryPolicy.reserve: get a copy, reserve min(quantity, qty) on
\* it when that is positive, update the store
LenientInventoryPolicy_reserve(store, sku, qty) ==
    IF sku \notin DOMAIN store
    THEN [ok |-> FALSE, err |-> "inventory missing", inventory |-> store]
    ELSE LET to_reserve == Min(store[sku], qty)
         IN  IF to_reserve > 0
             THEN LET r == InventoryItem_reserve(store[sku], to_reserve)
                  IN  IF ~r.ok
                      THEN [ok |-> FALSE, err |-> r.err, inventory |-> store]
                      ELSE [ok |-> TRUE, err |-> "",
                            inventory |-> [store EXCEPT ![sku] = r.quantity]]
             ELSE [ok |-> TRUE, err |-> "", inventory |-> store]

\* wrapper(*args) of lru_cache_simple(maxsize)(fn) called by one thread: c
\* is the decorator's cache and order, result what fn returns for the key
\* should it be called.  A hit returns the cached result and touches
\* nothing; a miss stores the result, appends the key to order and, order
\* being longer than maxsize, pops its first key out of both.
LruCache_call(c, maxsize, key, result) ==
    IF key \in DOMAIN c.cache
    THEN [c |-> c, hit |-> TRUE, result |-> c.cache[key], evicted |-> {}]
    ELSE LET cache1 == c.cache @@ (key :> result)
             order1 == Append(c.order, key)
         IN  IF Len(order1) > maxsize
             THEN LET oldest == Head(order1)
                  IN  [c |-> [cache |-> [k \in DOMAIN cache1 \ {oldest} |-> cache1[k]],
                              order |-> Tail(order1)],
                       hit |-> FALSE, result |-> result,
                       evicted |-> {oldest} \cap DOMAIN cache1]
             ELSE [c |-> [cache |-> cache1, order |-> order1],
                   hit |-> FALSE, result |-> result, evicted |-> {}]

\* payment ids the gateway hands out, the n-th successful charge gets the n-th
PaymentIds == <<"PGPAY-1", "PGPAY-2", "PGPAY-3", "PGPAY-4">>

\* f with one more counted for key k
Counted(f, k) ==
    IF k \in DOMAIN f THEN [f EXCEPT ![k] = @ + 1] ELSE f @@ (k :> 1)

CountOf(f, k) == IF k \in DOMAIN f THEN f[k] ELSE 0

\* PaymentGateway.charge(customer, amount, order_id) with the outcome the
\* gateway has for this invocation: "ok", or the exception it raises.  g is
\* what a call-counting gateway has seen: the charges that returned and the
\* number of invocations
Gateway_charge(g, amount, order_id, idem_key, outcome) ==
    IF outcome = "ok"
    THEN LET pid == PaymentIds[Len(g.charges) + 1]
         IN  [ok |-> TRUE, exc |-> "", payment_id |-> pid,
              charges |-> Append(g.charges, [order_id |-> order_id, amount |-> amount,
                                             key |-> idem_key, payment_id |-> pid]),
              calls |-> g.calls + 1]
    ELSE [ok |-> FALSE, exc |-> outcome, payment_id |-> "",
          charges |-> g.charges, calls |-> g.calls + 1]

-----------------------------------------------------------------------------
(* The in-memory repositories.  An entity is an object: the orders, the    *)
(* products and the customers repository store the object they are given  *)
(* and hand out the object they store; the inventory repository stores and *)
(* hands out copies.  store maps an id to the mutable fields of the stored *)
(* object; an entity the caller holds is [id, data, alias], alias telling  *)
(* whether it is the very object the store holds under its id.            *)

RepoKinds == {"orders", "products", "inventory", "customers"}

\* None, where an entity object could be
NoEntity == [some |-> FALSE, id |-> "", data |-> 0, alias |-> FALSE]

\* InMemoryOrderRepository.add alone tests for an existing id
Repo_add_raises_on_duplicate(kind) == kind = "orders"
\* ProductRepository has no update
Repo_has_update(kind) == kind # "products"
\* InMemoryInventoryRepository copies in get, add and update
Repo_copies(kind) == kind = "inventory"
\* InMemoryProductRepository.get is wrapped in lru_cache_simple
Repo_caches_get(kind) == kind = "products"

\* store with the entry of id set to data
Stored(store, id, data) ==
    [k \in DOMAIN store \cup {id} |-> IF k = id THEN data ELSE store[k]]

\* add(entity)
Repo_add(kind, store, e) ==
    IF Repo_add_raises_on_duplicate(kind) /\ e.id \in DOMAIN store
    THEN [ok |-> FALSE, store |-> store, e |-> e]
    ELSE [ok |-> TRUE, store |-> Stored(store, e.id, e.data),
          e |-> [e EXCEPT !.alias = ~Repo_copies(kind)]]

\* update(entity)
Repo_update(kind, store, e) ==
    IF e.id \notin DOMAIN store
    THEN [ok |-> FALSE, store |-> store, e |-> e]
    ELSE [ok |-> TRUE, store |-> Stored(store, e.id, e.data),
          e |-> [e EXCEPT !.alias = ~Repo_copies(kind)]]

\* self._store.get(id), the body of get
Repo_get_stored(kind, store, id) ==
    IF id \in DOMAIN store
    THEN [some |-> TRUE, id |-> id, data |-> store[id], alias |-> ~Repo_copies(kind)]
    ELSE NoEntity

\* get(id): through the cache where get is cached, which keeps every result
Repo_get(kind, store, cache, id) ==
    IF Repo_caches_get(kind)
    THEN IF id \in DOMAIN cache
         THEN [e |-> cache[id], cache |-> cache]
         ELSE LET e == Repo_get_stored(kind, store, id)
              IN  [e |-> e, cache |-> cache @@ (id :> e)]
    ELSE [e |-> Repo_get_stored(kind, store, id), cache |-> cache]

-----------------------------------------------------------------------------
(* create_order of 코드리뷰1-2회차/tx_basic.py, a function run inside       *)
(* transaction.atomic.  A database d is [stock, orders, order_items]: the  *)
(* stock of each Product row by sku, the ids of the Order rows, and the    *)
(* OrderItem rows.                                                         *)

\* the loop over items from item i on: products is what select_for_update
\* read when the function started, d the database as written so far, bulk
\* the OrderItem objects collected.  A stock going below zero breaks the
\* constraint of PositiveIntegerField
RECURSIVE Tx_items_loop(_, _, _, _, _, _)
Tx_items_loop(products, d, order, items, i, bulk) ==
    IF i > Len(items)
    THEN [exc |-> "", d |-> d, bulk |-> bulk]
    ELSE LET sku == items[i].sku
             q   == items[i].qty
         IN  IF sku \notin DOMAIN products
             THEN [exc |-> "KeyError", d |-> d, bulk |-> bulk]
             ELSE IF products[sku] < q
             THEN [exc |-> "ValueError", d |-> d, bulk |-> bulk]
             ELSE IF d.stock[sku] - q < 0
             THEN [exc |-> "IntegrityError", d |-> d, bulk |-> bulk]
             ELSE Tx_items_loop(products, [d EXCEPT !.stock[sku] = @ - q], order, items,
                                i + 1,
                                bulk \cup {[order |-> order, sku |-> sku, quantity |-> q]})

\* the body of create_order on database d; order is the new row's id.  The
\* result carries the database as the body left it and the callbacks it
\* handed to on_commit
Tx_create_order_body(d, order, items) ==
    LET d1 == [d EXCEPT !.orders = @ \cup {order}]
        r  == Tx_items_loop(d.stock, d1, order, items, 1, {})
    IN  IF r.exc # ""
        THEN [exc |-> r.exc, d |-> r.d, on_commit |-> <<>>]
        ELSE [exc |-> "", d |-> [r.d EXCEPT !.order_items = @ \cup r.bulk],
              on_commit |-> <<order>>]

\* mutant: the body run without a transaction around it
Transaction_atomic_autocommit(d, r) ==
    [exc |-> r.exc, d |-> r.d, ran |-> r.on_commit]

\* @transaction.atomic around a body that turned d into r.d: an exception
\* rolls the database back and drops the on_commit callbacks, a return
\* commits and then runs them
Transaction_atomic(d, r) ==
    IF r.exc # ""
    THEN [exc |-> r.exc, d |-> d, ran |-> <<>>]
    ELSE [exc |-> "", d |-> r.d, ran |-> r.on_commit]

Tx_create_order(d, order, items) ==
    Transaction_atomic(d, Tx_create_order_body(d, order, items))

-----------------------------------------------------------------------------
(* OrderService                                                            *)

\* attempts of the retry decorator on _charge, and the exceptions it retries
RetryTimes == 3
RetriedExceptions == {"RuntimeError"}

\* the body of _charge: a cached idem_key returns the cached payment id,
\* otherwise the gateway is charged and its payment id cached
Service_charge_once(w, amount, order_id, idem_key, outcome) ==
    IF idem_key \in DOMAIN w.idem
    THEN [ok |-> TRUE, exc |-> "", payment_id |-> w.idem[idem_key], w |-> w]
    ELSE LET g == Gateway_charge([charges |-> w.charges, calls |-> w.calls],
                                 amount, order_id, idem_key, outcome)
         IN  IF g.ok
             THEN [ok |-> TRUE, exc |-> "", payment_id |-> g.payment_id,
                   w |-> [w EXCEPT !.charges = g.charges, !.calls = g.calls,
                                   !.idem = @ @@ (idem_key :> g.payment_id)]]
             ELSE [ok |-> FALSE, exc |-> g.exc, payment_id |-> "",
                   w |-> [w EXCEPT !.charges = g.charges, !.calls = g.calls]]

\* mutant: the retry loop gives up one attempt early
RECURSIVE Service_charge_one_short(_, _, _, _, _, _)
Service_charge_one_short(w, amount, order_id, idem_key, outs, i) ==
    LET a == Service_charge_once(w, amount, order_id, idem_key, outs[i + 1])
    IN  IF a.ok \/ a.exc \notin RetriedExceptions \/ i + 1 >= RetryTimes - 1
        THEN a
        ELSE Service_charge_one_short(a.w, amount, order_id, idem_key, outs, i + 1)

\* mutant: the retry loop catching every exception
RECURSIVE Service_charge_retries_all(_, _, _, _, _, _)
Service_charge_retries_all(w, amount, order_id, idem_key, outs, i) ==
    LET a == Service_charge_once(w, amount, order_id, idem_key, outs[i + 1])
    IN  IF a.ok \/ i + 1 >= RetryTimes
        THEN a
        ELSE Service_charge_retries_all(a.w, amount, order_id, idem_key, outs, i + 1)

\* retry(times=3)(_charge) from attempt i (0-based) on; outs[i+1] is the
\* gateway's outcome should attempt i reach it.  An exception outside
\* RetriedExceptions leaves at once; after the last attempt the last
\* retried exception is raised
RECURSIVE Service_charge(_, _, _, _, _, _)
Service_charge(w, amount, order_id, idem_key, outs, i) ==
    LET a == Service_charge_once(w, amount, order_id, idem_key, outs[i + 1])
    IN  IF a.ok \/ a.exc \notin RetriedExceptions \/ i + 1 >= RetryTimes
        THEN a
        ELSE Service_charge(a.w, amount, order_id, idem_key, outs, i + 1)

\* an Order object obtained from the repository is the stored object
\* itself: what a method does to it is done to the stored order, whether or
\* not update is reached
StoreOrder(w, o) == [w EXCEPT !.orders[o.id] = o]

Service_create_order(w, customer_id, order_id) ==
    LET order == NewOrder(order_id, customer_id)
    IN  IF order_id \in DOMAIN w.orders
        THEN Raised(w, "ValueError", "Order already exists", <<>>)
        ELSE Returned([w EXCEPT !.orders = @ @@ (order_id :> order)],
                      order_id, order.events)

\* SimplePricing.price_for: product.price * qty
SimplePricing_price_for(product, qty) == Money_mul_int(product.price, qty)

\* TieredPricing.price_for: 10% off from 10 pieces, 5% off from 5
TieredPricing_price_for(product, qty) ==
    LET full == Money_mul_int(product.price, qty)
    IN  IF ~full.ok THEN full
        ELSE IF qty >= 10 THEN Money_mul(full.v, 90)
        ELSE IF qty >= 5 THEN Money_mul(full.v, 95)
        ELSE full

PricingStrategies == {"SimplePricing", "TieredPricing"}

\* self._pricing.price_for(product, qty, now)
Pricing_price_for(pricing, product, qty) ==
    IF pricing = "SimplePricing"
    THEN SimplePricing_price_for(product, qty)
    ELSE TieredPricing_price_for(product, qty)

\* mutant: add_item putting the strategy's price on the line
Service_add_item_priced_line(pricing, w, order_id, sku, qty) ==
    IF order_id \notin DOMAIN w.orders
    THEN Raised(w, "ValueError", "order not found", <<>>)
    ELSE IF sku \notin DOMAIN Catalog
    THEN Raised(w, "ValueError", "product not found", <<>>)
    ELSE LET inv == StrictInventoryPolicy_reserve(w.inventory, sku, qty)
             w1  == [w EXCEPT !.inventory = inv.inventory]
         IN  IF ~inv.ok
             THEN Raised(w1, "ValueError", inv.err, <<>>)
             ELSE LET price == Pricing_price_for(pricing, Catalog[sku], qty)
                      r == Order_add_line(w1.orders[order_id],
                               [Catalog[sku] EXCEPT !.price.amount = price.v.amount \div qty],
                               qty)
                  IN  IF ~price.ok
                      THEN Raised(w1, "ValueError", price.err, <<>>)
                      ELSE IF ~r.ok
                      THEN Raised(StoreOrder(w1, r.o), "ValueError", r.err, <<>>)
                      ELSE Returned(StoreOrder(w1, r.o), "", r.o.events)

\* add_item of a service constructed with the pricing strategy and the
\* strict inventory policy: the price goes to the log, the line is made of
\* the product
Service_add_item_priced(pricing, w, order_id, sku, qty) ==
    IF order_id \notin DOMAIN w.orders
    THEN Raised(w, "ValueError", "order not found", <<>>)
    ELSE IF sku = ""
    THEN Raised(w, "ValueError", "Invalid SKU", <<>>)
    ELSE IF sku \notin DOMAIN Catalog
    THEN Raised(w, "ValueError", "product not found", <<>>)
    ELSE LET inv == StrictInventoryPolicy_reserve(w.inventory, sku, qty)
             w1  == [w EXCEPT !.inventory = inv.inventory]
         IN  IF ~inv.ok
             THEN Raised(w1, "ValueError", inv.err, <<>>)
             ELSE LET price == Pricing_price_for(pricing, Catalog[sku], qty)
                      r == Order_add_line(w1.orders[order_id], Catalog[sku], qty)
                  IN  IF ~price.ok
                      THEN Raised(w1, "ValueError", price.err, <<>>)
                      ELSE IF ~r.ok
                      THEN Raised(StoreOrder(w1, r.o), "ValueError", r.err, <<>>)
                      ELSE Returned(StoreOrder(w1, r.o), "", r.o.events)

\* mutant: add_item that tests the order's status before reserving
Service_add_item_checks_first(w, order_id, sku, qty) ==
    IF order_id \notin DOMAIN w.orders
    THEN Raised(w, "ValueError", "order not found", <<>>)
    ELSE IF sku \notin DOMAIN Catalog
    THEN Raised(w, "ValueError", "product not found", <<>>)
    ELSE LET r == Order_add_line(w.orders[order_id], Catalog[sku], qty)
         IN  IF ~r.ok
             THEN Raised(w, "ValueError", r.err, <<>>)
             ELSE LET inv == StrictInventoryPolicy_reserve(w.inventory, sku, qty)
                  IN  IF ~inv.ok
                      THEN Raised(w, "ValueError", inv.err, <<>>)
                      ELSE Returned(StoreOrder([w EXCEPT !.inventory = inv.inventory], r.o),
                                    "", r.o.events)

\* add_item with the strict inventory policy; pricing.price_for is computed
\* for the log only and changes nothing
Service_add_item(w, order_id, sku, qty) ==
    IF order_id \notin DOMAIN w.orders
    THEN Raised(w, "ValueError", "order not found", <<>>)
    ELSE IF sku = ""
    THEN Raised(w, "ValueError", "Invalid SKU", <<>>)
    ELSE IF sku \notin DOMAIN Catalog
    THEN Raised(w, "ValueError", "product not found", <<>>)
    ELSE LET inv == StrictInventoryPolicy_reserve(w.inventory, sku, qty)
             w1  == [w EXCEPT !.inventory = inv.inventory]
         IN  IF ~inv.ok
             THEN Raised(w1, "ValueError", inv.err, <<>>)
             ELSE LET r == Order_add_line(w1.orders[order_id], Catalog[sku], qty)
                  IN  IF ~r.ok
                      THEN Raised(StoreOrder(w1, r.o), "ValueError", r.err, <<>>)
                      ELSE Returned(StoreOrder(w1, r.o), "", r.o.events)

\* add_item of a service constructed with LenientInventoryPolicy; with a
\* negative qty nothing is reserved and price_for raises
Service_add_item_lenient(w, order_id, sku, qty) ==
    IF order_id \notin DOMAIN w.orders
    THEN Raised(w, "ValueError", "order not found", <<>>)
    ELSE IF sku = ""
    THEN Raised(w, "ValueError", "Invalid SKU", <<>>)
    ELSE IF sku \notin DOMAIN Catalog
    THEN Raised(w, "ValueError", "product not found", <<>>)
    ELSE LET inv == LenientInventoryPolicy_reserve(w.inventory, sku, qty)
             w1  == [w EXCEPT !.inventory = inv.inventory]
         IN  IF ~inv.ok
             THEN Raised(w1, "ValueError", inv.err, <<>>)
             ELSE LET price == TieredPricing_price_for(Catalog[sku], qty)
                      r == Order_add_line(w1.orders[order_id], Catalog[sku], qty)
                  IN  IF ~price.ok
                      THEN Raised(w1, "ValueError", price.err, <<>>)
                      ELSE IF ~r.ok
                      THEN Raised(StoreOrder(w1, r.o), "ValueError", r.err, <<>>)
                      ELSE Returned(StoreOrder(w1, r.o), "", r.o.events)

Service_apply_promotions(w, order_id) ==
    IF order_id \notin DOMAIN w.orders
    THEN Raised(w, "ValueError", "order not found", <<>>)
    ELSE LET order == w.orders[order_id]
         IN  IF order.customer_id \notin DOMAIN w.customers
             THEN Raised(w, "ValueError", "customer not found", <<>>)
             ELSE LET d == CompositePromotion_discount_for(
                               order, w.customers[order.customer_id])
                  IN  IF d.amount > 0
                      THEN LET r == Order_apply_discount(order, d)
                           IN  IF ~r.ok
                               THEN Raised(StoreOrder(w, r.o), "ValueError", r.err, <<>>)
                               ELSE Returned(StoreOrder(w, r.o), "applied", <<>>)
                      ELSE Returned(w, "", <<>>)

Service_submit(w, order_id) ==
    IF order_id \notin DOMAIN w.orders
    THEN Raised(w, "ValueError", "order not found", <<>>)
    ELSE LET r == Order_submit(w.orders[order_id])
         IN  IF ~r.ok
             THEN Raised(StoreOrder(w, r.o), "ValueError", r.err, <<>>)
             ELSE Returned(StoreOrder(w, r.o), "", r.o.events)

\* idem_key or f"idem:{order_id}"
IdemKeyOrDefault(idem_key, order_id) ==
    IF idem_key = "" THEN "idem:" \o order_id ELSE idem_key

\* mutant: checkout without the status test before charging
Service_checkout_any_status(w, order_id, idem_key_arg, outs) ==
    LET idem_key == IdemKeyOrDefault(idem_key_arg, order_id)
    IN  IF order_id \notin DOMAIN w.orders
        THEN Raised(w, "ValueError", "order not found", <<>>)
        ELSE LET order == w.orders[order_id]
             IN  IF order.customer_id \notin DOMAIN w.customers
                 THEN Raised(w, "ValueError", "customer not found", <<>>)
                 ELSE LET c == Service_charge(w, order.grand_total.amount, order.id,
                                              idem_key, outs, 0)
                      IN  IF ~c.ok
                          THEN Raised(c.w, c.exc, "payment gateway error", <<>>)
                          ELSE LET r  == Order_mark_paid(c.w.orders[order_id], c.payment_id)
                                   w1 == StoreOrder(c.w, r.o)
                                   w2 == [w1 EXCEPT
                                            !.customers[order.customer_id].first_purchase_done = TRUE]
                               IN  IF ~r.ok
                                   THEN Raised(w1, "ValueError", r.err, <<>>)
                                   ELSE Returned(w2, c.payment_id, r.o.events)

\* mutant: checkout charging the subtotal, discounts left out
Service_checkout_charges_subtotal(w, order_id, idem_key_arg, outs) ==
    LET idem_key == IdemKeyOrDefault(idem_key_arg, order_id)
    IN  IF order_id \notin DOMAIN w.orders
        THEN Raised(w, "ValueError", "order not found", <<>>)
        ELSE LET order == w.orders[order_id]
             IN  IF order.customer_id \notin DOMAIN w.customers
                 THEN Raised(w, "ValueError", "customer not found", <<>>)
                 ELSE IF order.status # "SUBMITTED"
                 THEN Raised(w, "ValueError", "order not submitted", <<>>)
                 ELSE LET c == Service_charge(w, order.subtotal.amount, order.id,
                                              idem_key, outs, 0)
                      IN  IF ~c.ok
                          THEN Raised(c.w, c.exc, "payment gateway error", <<>>)
                          ELSE LET r  == Order_mark_paid(c.w.orders[order_id], c.payment_id)
                                   w1 == StoreOrder(c.w, r.o)
                                   w2 == [w1 EXCEPT
                                            !.customers[order.customer_id].first_purchase_done = TRUE]
                               IN  IF ~r.ok
                                   THEN Raised(w1, "ValueError", r.err, <<>>)
                                   ELSE Returned(w2, c.payment_id, r.o.events)

Service_checkout(w, order_id, idem_key_arg, outs) ==
    LET idem_key == IdemKeyOrDefault(idem_key_arg, order_id)
    IN  IF order_id \notin DOMAIN w.orders
        THEN Raised(w, "ValueError", "order not found", <<>>)
        ELSE LET order == w.orders[order_id]
             IN  IF order.customer_id \notin DOMAIN w.customers
                 THEN Raised(w, "ValueError", "customer not found", <<>>)
                 ELSE IF order.status # "SUBMITTED"
                 THEN Raised(w, "ValueError", "order not submitted", <<>>)
                 ELSE LET c == Service_charge(w, order.grand_total.amount, order.id,
                                              idem_key, outs, 0)
                      IN  IF ~c.ok
                          THEN Raised(c.w, c.exc, "payment gateway error", <<>>)
                          ELSE LET r  == Order_mark_paid(c.w.orders[order_id], c.payment_id)
                                   w1 == StoreOrder(c.w, r.o)
                                   w2 == [w1 EXCEPT
                                            !.customers[order.customer_id].first_purchase_done = TRUE]
                               IN  IF ~r.ok
                                   THEN Raised(w1, "ValueError", r.err, <<>>)
                                   ELSE Returned(w2, c.payment_id, r.o.events)

Service_ship(w, order_id, tracking_no) ==
    IF order_id \notin DOMAIN w.orders
    THEN Raised(w, "ValueError", "order not found", <<>>)
    ELSE LET r == Order_ship(w.orders[order_id], tracking_no)
         IN  IF ~r.ok
             THEN Raised(StoreOrder(w, r.o), "ValueError", r.err, <<>>)
             ELSE Returned(StoreOrder(w, r.o), "", r.o.events)

-----------------------------------------------------------------------------
(* The aggregate driven directly: any method, any argument, in any order   *)

\* products handed to add_line: two in the order's currency, one not
AggProducts ==
    { Product("SKU-A", "a", 2, "KRW", "fruit"),
      Product("SKU-B", "b", 3, "KRW", "meat"),
      Product("SKU-U", "u", 2, "USD", "fruit") }
AggQtys == {-1, 0, 1, 2}
AggDiscounts ==
    { [amount |-> -1, currency |-> "KRW"], [amount |-> 0, currency |-> "KRW"],
      [amount |-> 1, currency |-> "KRW"], [amount |-> 3, currency |-> "KRW"],
      [amount |-> 1, currency |-> "USD"] }

\* one method call on agg: the object as the call left it, and what the
\* caller saw (the method, its argument, whether it returned or raised)
AggCall(op, arg, r) ==
    /\ agg' = r.o
    /\ aggRet' = [op |-> op, arg |-> arg, ok |-> r.ok, err |-> r.err]
    /\ UNCHANGED <<busVars, uowVars, svcVars, raceVars, compVars>>

AggAddLine ==
    \E p \in AggProducts, q \in AggQtys :
        LET r == Order_add_line(agg, p, q)
        IN  /\ Len(r.o.lines) <= MaxLines
            /\ AggCall("add_line", [product |-> p, qty |-> q], r)

AggApplyDiscount ==
    \E d \in AggDiscounts :
        AggCall("apply_discount", d, Order_apply_discount(agg, d))

AggSubmit == AggCall("submit", "", Order_submit(agg))

AggMarkPaid == AggCall("mark_paid", "P1", Order_mark_paid(agg, "P1"))

AggShip == AggCall("ship", "T1", Order_ship(agg, "T1"))

AggCancel ==
    LET r == Order_cancel(agg, "why")
    IN  /\ Len(r.o.events) <= MaxEvents
        /\ AggCall("cancel", "why", r)

IdleAgg ==
    /\ agg = NewOrder("ORD-1", "CUST-001")
    /\ aggRet = [op |-> "new", arg |-> "", ok |-> TRUE, err |-> ""]

IdleBus ==
    /\ busHandlers = EventBus_init
    /\ busLog = <<>>
    /\ busRet = [op |-> "new", arg |-> <<>>, ok |-> TRUE]

IdleUow ==
    /\ uow = UoW_new
    /\ uowLog = <<>>
    /\ uowRet = [op |-> "new", exc |-> "", raised |-> "", rolled_back |-> FALSE]

\* the service as bootstrap_services returns it
IdleSvc ==
    /\ orders = <<>>
    /\ customers = InitialCustomers
    /\ inventory = InitialStock
    /\ idem = <<>>
    /\ charges = <<>>
    /\ gatewayCalls = 0
    /\ promoRuns = <<>>
    /\ delivered = <<>>
    /\ svcRet = [op |-> "bootstrap", order_id |-> "", key |-> "", exc |-> "",
                 err |-> "", ret |-> "", outs |-> <<>>, attempts |-> 0,
                 flushed |-> <<>>]

\* the threads that will call checkout, and one that has not called yet
Threads == {1, 2}
IdleThread == [pc |-> "idle", key |-> "", i |-> 0, payment_id |-> "",
               exc |-> "", ret |-> "", events |-> <<>>]

IdleRace == thr = [t \in Threads |-> IdleThread]

IdleItem ==
    /\ invItem = 0
    /\ invItemRet = [op |-> "new", qty |-> 0, ok |-> TRUE, err |-> ""]

IdleRepo ==
    /\ repoKind = "orders"
    /\ repoStore = <<>>
    /\ repoCache = <<>>
    /\ held = NoEntity
    /\ repoRet = [op |-> "new", id |-> "", ok |-> TRUE, found |-> FALSE, data |-> 0]

IdlePromo ==
    /\ promoArgs = [specs |-> <<>>, order |-> NewOrder("ORD-1", "CUST-001"),
                    customer |-> [id |-> "CUST-001", first_purchase_done |-> FALSE]]
    /\ promoRet = [called |-> FALSE, ok |-> TRUE, amount |-> 0, currency |-> "KRW"]

IdleMoney ==
    /\ moneyArgs = [a |-> Money_zero, b |-> Money_zero, pct |-> 100, amount |-> 0]
    /\ moneyRet = [called |-> FALSE, op |-> "", ok |-> TRUE, err |-> "", v |-> Money_zero]

IdleTx ==
    /\ db = [stock |-> <<>>, orders |-> {}, order_items |-> {}]
    /\ emitted = <<>>
    /\ txRet = [op |-> "new", items |-> <<>>, exc |-> "", order |-> 0]

\* no thread is inside add_item
IdleReserver == [pc |-> "idle", order_id |-> "", sku |-> "", qty |-> 0, item |-> 0,
                 reserved |-> FALSE, exc |-> "", err |-> "", events |-> <<>>]

IdleRsv == rsv = [t \in Threads |-> IdleReserver]

\* no service pair is constructed
IdleTwin ==
    /\ twin = <<>>
    /\ twinRet = [op |-> "new", promotions |-> 0, exc |-> <<>>]

\* the wrapper has not been called
IdleLru ==
    /\ lru = [cache |-> <<>>, order |-> <<>>]
    /\ lruUsed = <<>>
    /\ lruRet = [op |-> "new", key |-> 0, hit |-> FALSE, result |-> 0, evicted |-> {}]

IdleComp ==
    /\ IdleItem /\ IdleRepo /\ IdlePromo /\ IdleMoney /\ IdleTx /\ IdleRsv /\ IdleTwin
    /\ IdleLru

InitOrder == IdleAgg /\ IdleBus /\ IdleUow /\ IdleSvc /\ IdleRace /\ IdleComp

NextOrder ==
    \/ AggAddLine
    \/ AggApplyDiscount
    \/ AggSubmit
    \/ AggMarkPaid
    \/ AggShip
    \/ AggCancel

SpecOrder == InitOrder /\ [][NextOrder]_vars

-----------------------------------------------------------------------------
(* The bus driven directly: subscriptions and publications in any order    *)

BusHandlerPool == {"h_audit", "h_failing", "h_notify"}
BusEventTypes == {"OrderSubmitted", "OrderShipped"}
BusEvents == {OrderSubmitted("ORD-1"), OrderShipped("ORD-1", "T1")}

\* the event lists of length n
BusEventLists(n) == [1..n -> BusEvents]

BusSubscribe ==
    \E t \in BusEventTypes, h \in BusHandlerPool :
        /\ Len(busHandlers[t]) < MaxHandlers
        /\ busHandlers' = EventBus_subscribe(busHandlers, t, h)
        /\ busRet' = [op |-> "subscribe", arg |-> <<t, h>>, ok |-> TRUE]
        /\ UNCHANGED <<busLog, aggVars, uowVars, svcVars, raceVars, compVars>>

BusPublish ==
    \E n \in 0..MaxPublish : \E evs \in BusEventLists(n) :
        LET r == EventBus_publish(busHandlers, evs)
        IN  /\ busLog' = r.log
            /\ busRet' = [op |-> "publish", arg |-> evs, ok |-> r.ok]
            /\ UNCHANGED <<busHandlers, aggVars, uowVars, svcVars, raceVars, compVars>>

InitBus == IdleAgg /\ IdleBus /\ IdleUow /\ IdleSvc /\ IdleRace /\ IdleComp

NextBus == BusSubscribe \/ BusPublish

SpecBus == InitBus /\ [][NextBus]_vars

-----------------------------------------------------------------------------
(* One unit of work driven directly: with uow: <body> over and over, the   *)
(* body appending events and returning or raising                          *)

ScopeEvents ==
    {OrderSubmitted("ORD-1"), PaymentReceived("ORD-1", "P1"), OrderShipped("ORD-1", "T1")}
ScopeExceptions == {"", "ValueError", "RuntimeError"}

UowEnter ==
    /\ ~uow.active
    /\ uow' = UoW_enter(uow)
    /\ uowRet' = [op |-> "enter", exc |-> "", raised |-> "", rolled_back |-> FALSE]
    /\ UNCHANGED <<uowLog, aggVars, busVars, svcVars, raceVars, compVars>>

\* the body: uow.events += [e]
UowRecord ==
    \E e \in ScopeEvents :
        /\ uow.active
        /\ Len(uow.events) < MaxPublish
        /\ uow' = [uow EXCEPT !.events = Append(@, e)]
        /\ uowRet' = [op |-> "record", exc |-> "", raised |-> "", rolled_back |-> FALSE]
        /\ UNCHANGED <<uowLog, aggVars, busVars, svcVars, raceVars, compVars>>

UowExit ==
    \E exc \in ScopeExceptions :
        LET r == UoW_exit(uow, BootHandlers, exc)
        IN  /\ uow.active
            /\ uow' = r.u
            /\ uowLog' = r.log
            /\ uowRet' = [op |-> "exit", exc |-> exc, raised |-> r.raised,
                          rolled_back |-> r.rolled_back]
            /\ UNCHANGED <<aggVars, busVars, svcVars, raceVars, compVars>>

InitUow == IdleAgg /\ IdleBus /\ IdleUow /\ IdleSvc /\ IdleRace /\ IdleComp

NextUow == UowEnter \/ UowRecord \/ UowExit

SpecUow == InitUow /\ [][NextUow]_vars

-----------------------------------------------------------------------------
(* The service driven by one caller: any operation, any argument, in any   *)
(* order, each operation run to its end before the next                    *)

\* the order id uuid4 produces, customer ids, items and keys callers pass
OrderIdPool == {"ORD-1"}
SvcCustomerIds == {"CUST-001", "CUST-404"}
SvcItems == {<<"SKU-APPLE", 6>>, <<"SKU-BEEF", 1>>, <<"SKU-BEEF", 3>>,
             <<"SKU-MILK", 0>>, <<"SKU-NONE", 1>>}
SvcKeys == {"", "idem-123"}
\* what a gateway does when charged: DummyPaymentGateway returns a payment
\* id or raises RuntimeError; another gateway may raise something else
GatewayOutcomes == {"ok", "RuntimeError", "OSError"}

World == [orders |-> orders, customers |-> customers, inventory |-> inventory,
          idem |-> idem, charges |-> charges, calls |-> gatewayCalls]

\* invocations of the gateway that raised
FailedCharges(w) == w.calls - Len(w.charges)

RECURSIVE CountEvents(_, _)
\* the count d with every event of the sequence es counted once more
CountEvents(d, es) ==
    IF es = <<>> THEN d ELSE CountEvents(Counted(d, Head(es)), Tail(es))

\* events of a publish log, in order
LogEvents(log) == [k \in 1..Len(log) |-> log[k].event]

\* with self._uow_factory() as uow: <body>, r being what the body did and
\* outs what the gateway has for its invocations; svcRet keeps the outcomes
\* of the invocations made
SvcCall(op, order_id, key, outs, r) ==
    LET u == [UoW_enter(UoW_new) EXCEPT !.events = r.events]
        x == UoW_exit(u, BootHandlers, r.exc)
    IN  /\ orders' = r.w.orders
        /\ customers' = r.w.customers
        /\ inventory' = r.w.inventory
        /\ idem' = r.w.idem
        /\ charges' = r.w.charges
        /\ gatewayCalls' = r.w.calls
        /\ promoRuns' = IF op = "apply_promotions" /\ r.ret = "applied"
                        THEN Counted(promoRuns, order_id) ELSE promoRuns
        /\ delivered' = CountEvents(delivered, LogEvents(x.log))
        /\ svcRet' = [op |-> op, order_id |-> order_id, key |-> key, exc |-> x.raised,
                      err |-> r.err, ret |-> r.ret,
                      outs |-> SubSeq(outs, 1, r.w.calls - gatewayCalls),
                      attempts |-> r.w.calls - gatewayCalls,
                      flushed |-> LogEvents(x.log)]
        /\ UNCHANGED <<aggVars, busVars, uowVars, raceVars, compVars>>

CreateOrder ==
    \E cid \in SvcCustomerIds, oid \in OrderIdPool :
        SvcCall("create_order", oid, "", <<>>, Service_create_order(World, cid, oid))

AddItem ==
    \E oid \in OrderIdPool, item \in SvcItems :
        LET r == Service_add_item(World, oid, item[1], item[2])
        IN  /\ \A o \in DOMAIN r.w.orders : Len(r.w.orders[o].lines) <= MaxItems
            /\ SvcCall("add_item", oid, "", <<>>, r)

ApplyPromotions ==
    \E oid \in OrderIdPool :
        /\ CountOf(promoRuns, oid) < MaxPromotions
        /\ SvcCall("apply_promotions", oid, "", <<>>, Service_apply_promotions(World, oid))

Submit ==
    \E oid \in OrderIdPool : SvcCall("submit", oid, "", <<>>, Service_submit(World, oid))

Checkout ==
    \E oid \in OrderIdPool, key \in SvcKeys, outs \in [1..RetryTimes -> GatewayOutcomes] :
        LET r == Service_checkout(World, oid, key, outs)
        IN  /\ FailedCharges(r.w) <= MaxGatewayFailures
            /\ SvcCall("checkout", oid, key, outs, r)

Ship ==
    \E oid \in OrderIdPool : SvcCall("ship", oid, "", <<>>, Service_ship(World, oid, "T1"))

Init == IdleAgg /\ IdleBus /\ IdleUow /\ IdleSvc /\ IdleRace /\ IdleComp

Next ==
    \/ CreateOrder
    \/ AddItem
    \/ ApplyPromotions
    \/ Submit
    \/ Checkout
    \/ Ship

Spec == Init /\ [][Next]_vars

-----------------------------------------------------------------------------
(* The service driven by one caller as above, with orders small enough for *)
(* the fixed first-purchase discount to reach the cap                      *)

\* the sku and qty the caller passes
CheapItems == {<<"SKU-MILK", 1>>, <<"SKU-MILK", 3>>, <<"SKU-APPLE", 6>>}

CheapAddItem ==
    \E oid \in OrderIdPool, item \in CheapItems :
        LET r == Service_add_item(World, oid, item[1], item[2])
        IN  /\ \A o \in DOMAIN r.w.orders : Len(r.w.orders[o].lines) <= MaxItems
            /\ SvcCall("add_item", oid, "", <<>>, r)

\* checkout with the default key, the gateway charging at once
CheapCheckout ==
    \E oid \in OrderIdPool :
        SvcCall("checkout", oid, "", <<"ok">>,
                Service_checkout(World, oid, "", [k \in 1..RetryTimes |-> "ok"]))

NextCheap ==
    \/ CreateOrder
    \/ CheapAddItem
    \/ ApplyPromotions
    \/ Submit
    \/ CheapCheckout
    \/ Ship

SpecCheap == Init /\ [][NextCheap]_vars

-----------------------------------------------------------------------------
(* The service driven by one caller who places up to two orders for one    *)
(* customer, each below the threshold of MinAmountSpec                     *)

\* the ids uuid4 produces for the two orders, and the caller's arguments
TwoOrderIds == {"ORD-1", "ORD-2"}
TwoItems == {<<"SKU-BEEF", 1>>, <<"SKU-MILK", 3>>}
TwoKeys == {"", "idem-123"}

\* create_order: uuid4 gives an id no stored order has
TwoCreateOrder ==
    \E oid \in TwoOrderIds :
        /\ oid \notin DOMAIN orders
        /\ SvcCall("create_order", oid, "", <<>>,
                   Service_create_order(World, "CUST-001", oid))

TwoAddItem ==
    \E oid \in TwoOrderIds, item \in TwoItems :
        LET r == Service_add_item(World, oid, item[1], item[2])
        IN  /\ \A o \in DOMAIN r.w.orders : Len(r.w.orders[o].lines) <= MaxItems
            /\ SvcCall("add_item", oid, "", <<>>, r)

TwoApplyPromotions ==
    \E oid \in TwoOrderIds :
        /\ CountOf(promoRuns, oid) < MaxPromotions
        /\ SvcCall("apply_promotions", oid, "", <<>>, Service_apply_promotions(World, oid))

TwoSubmit ==
    \E oid \in TwoOrderIds : SvcCall("submit", oid, "", <<>>, Service_submit(World, oid))

\* checkout with the default key or a key of the caller's, the gateway
\* charging at once
TwoCheckout ==
    \E oid \in TwoOrderIds, key \in TwoKeys :
        SvcCall("checkout", oid, key, <<"ok">>,
                Service_checkout(World, oid, key, [k \in 1..RetryTimes |-> "ok"]))

NextTwo ==
    \/ TwoCreateOrder
    \/ TwoAddItem
    \/ TwoApplyPromotions
    \/ TwoSubmit
    \/ TwoCheckout

SpecTwo == Init /\ [][NextTwo]_vars

-----------------------------------------------------------------------------
(* Two threads calling checkout on one submitted order.  A step is what a  *)
(* thread does between two points where the other can run: one repository  *)
(* call under the repository's lock, or one statement on shared objects.   *)
(* OrderService takes no lock of its own.                                  *)

RaceOrderId == "ORD-1"
\* what the caller put in the order before submitting it
RaceItems == {<<"SKU-APPLE", 6>>, <<"SKU-BEEF", 1>>}

\* the service after create_order, add_item(item) and submit, made by one
\* caller before the threads start
Submitted(item) ==
    LET w0 == [orders |-> <<>>, customers |-> InitialCustomers,
               inventory |-> InitialStock, idem |-> <<>>, charges |-> <<>>,
               calls |-> 0]
        c  == Service_create_order(w0, "CUST-001", RaceOrderId)
        a  == Service_add_item(c.w, RaceOrderId, item[1], item[2])
    IN  Service_submit(a.w, RaceOrderId)

\* the thread leaves the body of the with block by an exception
Leave(th, exc) == [th EXCEPT !.pc = "exit", !.exc = exc]

\* checkout up to the status test: the key, a fresh unit of work entered,
\* the order and the customer fetched
RaceEnter ==
    \E t \in Threads, key \in SvcKeys :
        LET th == [IdleThread EXCEPT !.key = IdemKeyOrDefault(key, RaceOrderId),
                                     !.events = UoW_enter(UoW_new).events]
        IN  /\ thr[t].pc = "idle"
            /\ thr' = [thr EXCEPT ![t] =
                        IF RaceOrderId \notin DOMAIN orders
                        THEN Leave(th, "ValueError")
                        ELSE IF orders[RaceOrderId].customer_id \notin DOMAIN customers
                        THEN Leave(th, "ValueError")
                        ELSE [th EXCEPT !.pc = "check_status"]]
            /\ UNCHANGED <<aggVars, busVars, uowVars, svcVars, compVars>>

\* if order.status is not OrderStatus.SUBMITTED: raise
RaceCheckStatus ==
    \E t \in Threads :
        /\ thr[t].pc = "check_status"
        /\ thr' = [thr EXCEPT ![t] =
                    IF orders[RaceOrderId].status # "SUBMITTED"
                    THEN Leave(@, "ValueError")
                    ELSE [@ EXCEPT !.pc = "charge_lookup", !.i = 0]]
        /\ UNCHANGED <<aggVars, busVars, uowVars, svcVars, compVars>>

\* _charge: if idem_key in self._idempotency_store: return the cached id
RaceChargeLookup ==
    \E t \in Threads :
        /\ thr[t].pc = "charge_lookup"
        /\ thr' = [thr EXCEPT ![t] =
                    IF @.key \in DOMAIN idem
                    THEN [@ EXCEPT !.pc = "mark_paid", !.payment_id = idem[thr[t].key]]
                    ELSE [@ EXCEPT !.pc = "charge_gateway"]]
        /\ UNCHANGED <<aggVars, busVars, uowVars, svcVars, compVars>>

\* _charge: payment_id = self._pg.charge(...), inside the retry loop
RaceChargeGateway ==
    \E t \in Threads, outcome \in GatewayOutcomes :
        LET g == Gateway_charge([charges |-> charges, calls |-> gatewayCalls],
                                orders[RaceOrderId].grand_total.amount,
                                RaceOrderId, thr[t].key, outcome)
        IN  /\ thr[t].pc = "charge_gateway"
            /\ charges' = g.charges
            /\ gatewayCalls' = g.calls
            /\ thr' = [thr EXCEPT ![t] =
                        IF g.ok
                        THEN [@ EXCEPT !.pc = "charge_store", !.payment_id = g.payment_id]
                        ELSE IF g.exc \in RetriedExceptions /\ @.i + 1 < RetryTimes
                        THEN [@ EXCEPT !.pc = "charge_lookup", !.i = @ + 1]
                        ELSE Leave(@, g.exc)]
            /\ UNCHANGED <<aggVars, busVars, uowVars, orders, customers, inventory,
                           idem, promoRuns, delivered, svcRet, compVars>>

\* _charge: self._idempotency_store[idem_key] = payment_id
RaceChargeStore ==
    \E t \in Threads :
        /\ thr[t].pc = "charge_store"
        /\ idem' = [k \in DOMAIN idem \cup {thr[t].key} |->
                      IF k = thr[t].key THEN thr[t].payment_id ELSE idem[k]]
        /\ thr' = [thr EXCEPT ![t].pc = "mark_paid"]
        /\ UNCHANGED <<aggVars, busVars, uowVars, orders, customers, inventory,
                       charges, gatewayCalls, promoRuns, delivered, svcRet, compVars>>

\* mark_paid: if self.status is not OrderStatus.SUBMITTED: raise
RaceMarkPaidCheck ==
    \E t \in Threads :
        /\ thr[t].pc = "mark_paid"
        /\ thr' = [thr EXCEPT ![t] =
                    IF orders[RaceOrderId].status # "SUBMITTED"
                    THEN Leave(@, "ValueError")
                    ELSE [@ EXCEPT !.pc = "mark_paid_set"]]
        /\ UNCHANGED <<aggVars, busVars, uowVars, svcVars, compVars>>

\* mark_paid: the status and the event, then uow.orders.update(order), which
\* stores the object the repository already holds
RaceMarkPaidSet ==
    \E t \in Threads :
        /\ thr[t].pc = "mark_paid_set"
        /\ orders' = [orders EXCEPT ![RaceOrderId] =
                        [@ EXCEPT !.status = "PAID",
                                  !.events = Append(@, PaymentReceived(RaceOrderId,
                                                                       thr[t].payment_id))]]
        /\ thr' = [thr EXCEPT ![t].pc = "first_purchase"]
        /\ UNCHANGED <<aggVars, busVars, uowVars, customers, inventory, idem,
                       charges, gatewayCalls, promoRuns, delivered, svcRet, compVars>>

\* if not customer.first_purchase_done: set it and update the customer
RaceFirstPurchase ==
    \E t \in Threads :
        /\ thr[t].pc = "first_purchase"
        /\ customers' = [customers EXCEPT
                           ![orders[RaceOrderId].customer_id].first_purchase_done = TRUE]
        /\ thr' = [thr EXCEPT ![t].pc = "collect"]
        /\ UNCHANGED <<aggVars, busVars, uowVars, orders, inventory, idem,
                       charges, gatewayCalls, promoRuns, delivered, svcRet, compVars>>

\* uow.events += order.events; return payment_id
RaceCollect ==
    \E t \in Threads :
        /\ thr[t].pc = "collect"
        /\ thr' = [thr EXCEPT ![t] =
                    [@ EXCEPT !.pc = "exit", !.ret = thr[t].payment_id,
                              !.events = @ \o orders[RaceOrderId].events]]
        /\ UNCHANGED <<aggVars, busVars, uowVars, svcVars, compVars>>

\* __exit__ of the thread's unit of work
RaceExit ==
    \E t \in Threads :
        LET u == [UoW_enter(UoW_new) EXCEPT !.events = thr[t].events]
            x == UoW_exit(u, BootHandlers, thr[t].exc)
        IN  /\ thr[t].pc = "exit"
            /\ delivered' = CountEvents(delivered, LogEvents(x.log))
            /\ thr' = [thr EXCEPT ![t] = [@ EXCEPT !.pc = "done", !.events = x.u.events]]
            /\ UNCHANGED <<aggVars, busVars, uowVars, orders, customers, inventory,
                           idem, charges, gatewayCalls, promoRuns, svcRet, compVars>>

InitRace ==
    /\ IdleAgg /\ IdleBus /\ IdleUow /\ IdleRace /\ IdleComp
    /\ \E item \in RaceItems :
         LET r == Submitted(item)
             x == UoW_exit([UoW_enter(UoW_new) EXCEPT !.events = r.events],
                           BootHandlers, r.exc)
         IN  /\ orders = r.w.orders
             /\ customers = r.w.customers
             /\ inventory = r.w.inventory
             /\ idem = r.w.idem
             /\ charges = r.w.charges
             /\ gatewayCalls = r.w.calls
             /\ promoRuns = <<>>
             /\ delivered = CountEvents(<<>>, LogEvents(x.log))
             /\ svcRet = [op |-> "submit", order_id |-> RaceOrderId, key |-> "",
                          exc |-> x.raised, err |-> r.err, ret |-> r.ret,
                          outs |-> <<>>, attempts |-> 0, flushed |-> LogEvents(x.log)]

NextRace ==
    \/ RaceEnter
    \/ RaceCheckStatus
    \/ RaceChargeLookup
    \/ RaceChargeGateway
    \/ RaceChargeStore
    \/ RaceMarkPaidCheck
    \/ RaceMarkPaidSet
    \/ RaceFirstPurchase
    \/ RaceCollect
    \/ RaceExit

SpecRace == InitRace /\ [][NextRace]_vars

-----------------------------------------------------------------------------
(* Two threads calling add_item with the strict inventory policy, each on  *)
(* an order of its own.  A step is one repository call under that          *)
(* repository's lock, or statements on objects only the thread holds.      *)
(* Neither the policy nor OrderService takes a lock around the calls.      *)

\* the order each thread adds to
RsvOrderIds == <<"ORD-1", "ORD-2">>
\* the sku and qty the threads pass
RsvItems == {<<"SKU-BEEF", 1>>, <<"SKU-BEEF", 2>>, <<"SKU-APPLE", 6>>,
             <<"SKU-MILK", 0>>, <<"SKU-NONE", 1>>}

\* InMemoryInventoryRepository.get: a copy of the stored item, or None
InventoryRepository_get(store, sku) ==
    IF sku \in DOMAIN store
    THEN [found |-> TRUE, quantity |-> store[sku]]
    ELSE [found |-> FALSE, quantity |-> 0]

\* InMemoryInventoryRepository.update: stores a copy of the item given
InventoryRepository_update(store, sku, quantity) ==
    IF sku \notin DOMAIN store
    THEN [ok |-> FALSE, err |-> "Inventory not found", store |-> store]
    ELSE [ok |-> TRUE, err |-> "", store |-> [store EXCEPT ![sku] = quantity]]

\* the service after one caller made create_order twice
TwoDraftOrders ==
    LET w0 == [orders |-> <<>>, customers |-> InitialCustomers,
               inventory |-> InitialStock, idem |-> <<>>, charges |-> <<>>,
               calls |-> 0]
        c  == Service_create_order(w0, "CUST-001", RsvOrderIds[1])
    IN  Service_create_order(c.w, "CUST-001", RsvOrderIds[2])

\* the thread leaves the body of the with block by an exception
RsvLeave(th, err) == [th EXCEPT !.pc = "exit", !.exc = "ValueError", !.err = err]

NotRsv == <<aggVars, busVars, uowVars, raceVars, itemVars, repoVars, promoVars,
            moneyVars, txVars, twinVars, lruVars>>

\* add_item up to the policy: a fresh unit of work entered, the order and
\* the product fetched
RsvEnter ==
    \E t \in Threads, item \in RsvItems :
        LET th == [rsv[t] EXCEPT !.order_id = RsvOrderIds[t], !.sku = item[1],
                                 !.qty = item[2]]
        IN  /\ rsv[t].pc = "idle"
            /\ rsv' = [rsv EXCEPT ![t] =
                         IF th.order_id \notin DOMAIN orders
                         THEN RsvLeave(th, "order not found")
                         ELSE IF th.sku \notin DOMAIN Catalog
                         THEN RsvLeave(th, "product not found")
                         ELSE [th EXCEPT !.pc = "get"]]
            /\ UNCHANGED <<svcVars, NotRsv>>

\* StrictInventoryPolicy.reserve: item = uow.inventory.get(sku)
RsvGet ==
    \E t \in Threads :
        LET g == InventoryRepository_get(inventory, rsv[t].sku)
        IN  /\ rsv[t].pc = "get"
            /\ rsv' = [rsv EXCEPT ![t] =
                         IF ~g.found
                         THEN RsvLeave(@, "inventory missing")
                         ELSE [@ EXCEPT !.pc = "reserve", !.item = g.quantity]]
            /\ UNCHANGED <<svcVars, NotRsv>>

\* StrictInventoryPolicy.reserve: item.reserve(qty), on the thread's copy
RsvReserve ==
    \E t \in Threads :
        LET r == InventoryItem_reserve(rsv[t].item, rsv[t].qty)
        IN  /\ rsv[t].pc = "reserve"
            /\ rsv' = [rsv EXCEPT ![t] =
                         IF ~r.ok
                         THEN RsvLeave(@, r.err)
                         ELSE [@ EXCEPT !.pc = "update", !.item = r.quantity]]
            /\ UNCHANGED <<svcVars, NotRsv>>

\* StrictInventoryPolicy.reserve: uow.inventory.update(item), and the return
RsvUpdate ==
    \E t \in Threads :
        LET u == InventoryRepository_update(inventory, rsv[t].sku, rsv[t].item)
        IN  /\ rsv[t].pc = "update"
            /\ inventory' = u.store
            /\ rsv' = [rsv EXCEPT ![t] =
                         IF ~u.ok
                         THEN RsvLeave(@, u.err)
                         ELSE [@ EXCEPT !.pc = "add_line", !.reserved = TRUE]]
            /\ UNCHANGED <<orders, customers, idem, charges, gatewayCalls, promoRuns,
                           delivered, svcRet, NotRsv>>

\* price_for, order.add_line(product, qty), uow.orders.update(order) and
\* uow.events += order.events, the order being the stored object
RsvAddLine ==
    \E t \in Threads :
        LET r == Order_add_line(orders[rsv[t].order_id], Catalog[rsv[t].sku], rsv[t].qty)
        IN  /\ rsv[t].pc = "add_line"
            /\ orders' = [orders EXCEPT ![rsv[t].order_id] = r.o]
            /\ rsv' = [rsv EXCEPT ![t] =
                         IF ~r.ok
                         THEN RsvLeave(@, r.err)
                         ELSE [@ EXCEPT !.pc = "exit", !.events = r.o.events]]
            /\ UNCHANGED <<customers, inventory, idem, charges, gatewayCalls, promoRuns,
                           delivered, svcRet, NotRsv>>

\* __exit__ of the thread's unit of work, and the return to the caller
RsvExit ==
    \E t \in Threads :
        LET x == UoW_exit([UoW_enter(UoW_new) EXCEPT !.events = rsv[t].events],
                          BootHandlers, rsv[t].exc)
        IN  /\ rsv[t].pc = "exit"
            /\ delivered' = CountEvents(delivered, LogEvents(x.log))
            /\ svcRet' = [op |-> "add_item", order_id |-> rsv[t].order_id, key |-> "",
                          exc |-> x.raised, err |-> rsv[t].err, ret |-> "",
                          outs |-> <<>>, attempts |-> 0, flushed |-> LogEvents(x.log)]
            /\ rsv' = [rsv EXCEPT ![t].pc = "done"]
            /\ UNCHANGED <<orders, customers, inventory, idem, charges, gatewayCalls,
                           promoRuns, NotRsv>>

InitReserve ==
    /\ IdleAgg /\ IdleBus /\ IdleUow /\ IdleRace
    /\ IdleItem /\ IdleRepo /\ IdlePromo /\ IdleMoney /\ IdleTx /\ IdleRsv /\ IdleTwin
    /\ IdleLru
    /\ LET r == TwoDraftOrders
       IN  /\ orders = r.w.orders
           /\ customers = r.w.customers
           /\ inventory = r.w.inventory
           /\ idem = r.w.idem
           /\ charges = r.w.charges
           /\ gatewayCalls = r.w.calls
           /\ promoRuns = <<>>
           /\ delivered = <<>>
           /\ svcRet = [op |-> "create_order", order_id |-> RsvOrderIds[2], key |-> "",
                        exc |-> r.exc, err |-> r.err, ret |-> r.ret,
                        outs |-> <<>>, attempts |-> 0, flushed |-> <<>>]

NextReserve ==
    \/ RsvEnter
    \/ RsvGet
    \/ RsvReserve
    \/ RsvUpdate
    \/ RsvAddLine
    \/ RsvExit

SpecReserve == InitReserve /\ [][NextReserve]_vars

-----------------------------------------------------------------------------
(* The service constructed with LenientInventoryPolicy, one caller:        *)
(* bootstrap_services(inventory_policy=LenientInventoryPolicy())            *)

\* the sku and qty the caller passes
LenientItems == {<<"SKU-APPLE", 1>>, <<"SKU-APPLE", 7>>, <<"SKU-BEEF", 3>>,
                 <<"SKU-MILK", 0>>, <<"SKU-NONE", 1>>}

LenientAddItem ==
    \E oid \in OrderIdPool, item \in LenientItems :
        LET r == Service_add_item_lenient(World, oid, item[1], item[2])
        IN  /\ \A o \in DOMAIN r.w.orders : Len(r.w.orders[o].lines) <= MaxLines
            /\ SvcCall("add_item", oid, "", <<>>, r)

NextLenient ==
    \/ CreateOrder
    \/ LenientAddItem
    \/ Submit

SpecLenient == Init /\ [][NextLenient]_vars

-----------------------------------------------------------------------------
(* Two services, one constructed with SimplePricing and one with           *)
(* TieredPricing, given the same create_order, add_item and                *)
(* apply_promotions calls one after the other                              *)

\* the sku and qty the caller passes: quantities in each tier
TwinItems == {<<"SKU-APPLE", 1>>, <<"SKU-APPLE", 5>>, <<"SKU-BEEF", 10>>,
              <<"SKU-MILK", 12>>, <<"SKU-MILK", 0>>, <<"SKU-NONE", 1>>}

\* the repositories bootstrap_services fills
BootWorld ==
    [orders |-> <<>>, customers |-> InitialCustomers, inventory |-> BootStock,
     idem |-> <<>>, charges |-> <<>>, calls |-> 0]

NotTwin == <<aggVars, busVars, uowVars, svcVars, raceVars, itemVars, repoVars,
             promoVars, moneyVars, txVars, rsvVars, lruVars>>

\* the call whose outcome on the service with pricing p is r[p]
TwinCall(op, r) ==
    /\ twin' = [p \in PricingStrategies |-> r[p].w]
    /\ twinRet' = [op |-> op,
                   promotions |-> twinRet.promotions +
                                    (IF op = "apply_promotions" THEN 1 ELSE 0),
                   exc |-> [p \in PricingStrategies |-> r[p].exc]]
    /\ UNCHANGED NotTwin

TwinCreateOrder ==
    \E cid \in SvcCustomerIds, oid \in OrderIdPool :
        TwinCall("create_order",
                 [p \in PricingStrategies |-> Service_create_order(twin[p], cid, oid)])

TwinAddItem ==
    \E oid \in OrderIdPool, item \in TwinItems :
        LET r == [p \in PricingStrategies |->
                     Service_add_item_priced(p, twin[p], oid, item[1], item[2])]
        IN  /\ \A p \in PricingStrategies : \A o \in DOMAIN r[p].w.orders :
                   Len(r[p].w.orders[o].lines) <= MaxLines
            /\ TwinCall("add_item", r)

TwinApplyPromotions ==
    \E oid \in OrderIdPool :
        /\ twinRet.promotions < MaxPromotions
        /\ TwinCall("apply_promotions",
                    [p \in PricingStrategies |-> Service_apply_promotions(twin[p], oid)])

InitTwin ==
    /\ IdleAgg /\ IdleBus /\ IdleUow /\ IdleSvc /\ IdleRace
    /\ IdleItem /\ IdleRepo /\ IdlePromo /\ IdleMoney /\ IdleTx /\ IdleRsv /\ IdleLru
    /\ twin = [p \in PricingStrategies |-> BootWorld]
    /\ twinRet = [op |-> "bootstrap", promotions |-> 0,
                  exc |-> [p \in PricingStrategies |-> ""]]

NextTwin ==
    \/ TwinCreateOrder
    \/ TwinAddItem
    \/ TwinApplyPromotions

SpecTwin == InitTwin /\ [][NextTwin]_vars

-----------------------------------------------------------------------------
(* One function wrapped by lru_cache_simple(MaxCacheSize), called by one   *)
(* thread with any key, one call after the other                           *)

\* the keys the wrapper is called with, one more than the cache holds, and
\* what the wrapped function may return
LruKeys == 1..(MaxCacheSize + 1)
LruResults == {"None", "Product"}

NotLru == <<aggVars, busVars, uowVars, svcVars, raceVars, itemVars, repoVars,
            promoVars, moneyVars, txVars, rsvVars, twinVars>>

\* the sequence without the key
RECURSIVE Without(_, _)
Without(seq, key) ==
    IF seq = <<>> THEN <<>>
    ELSE IF Head(seq) = key THEN Without(Tail(seq), key)
    ELSE <<Head(seq)>> \o Without(Tail(seq), key)

LruCall ==
    \E key \in LruKeys, result \in LruResults :
        LET r == LruCache_call(lru, MaxCacheSize, key, result)
        IN  /\ lru' = r.c
            /\ lruUsed' = Append(Without(lruUsed, key), key)
            /\ lruRet' = [op |-> "call", key |-> key, hit |-> r.hit,
                          result |-> r.result, evicted |-> r.evicted]
            /\ UNCHANGED NotLru

InitLru ==
    /\ IdleAgg /\ IdleBus /\ IdleUow /\ IdleSvc /\ IdleRace
    /\ IdleItem /\ IdleRepo /\ IdlePromo /\ IdleMoney /\ IdleTx /\ IdleRsv /\ IdleTwin
    /\ IdleLru

NextLru == LruCall

SpecLru == InitLru /\ [][NextLru]_vars

-----------------------------------------------------------------------------
(* One InventoryItem driven directly: reserve and restock with any         *)
(* quantity, in any order                                                  *)

\* quantities an item is constructed with, and quantities callers pass
ItemQuantities == 0..MaxStock
ItemQtys == -1..(MaxStock + 1)

NotItem == <<aggVars, busVars, uowVars, svcVars, raceVars, repoVars, promoVars, moneyVars, txVars, rsvVars, twinVars, lruVars>>

ItemReserve ==
    \E qty \in ItemQtys :
        LET r == InventoryItem_reserve(invItem, qty)
        IN  /\ invItem' = r.quantity
            /\ invItemRet' = [op |-> "reserve", qty |-> qty, ok |-> r.ok, err |-> r.err]
            /\ UNCHANGED NotItem

ItemRestock ==
    \E qty \in ItemQtys :
        LET r == InventoryItem_restock(invItem, qty)
        IN  /\ r.quantity <= MaxStock
            /\ invItem' = r.quantity
            /\ invItemRet' = [op |-> "restock", qty |-> qty, ok |-> r.ok, err |-> r.err]
            /\ UNCHANGED NotItem

InitItem ==
    /\ IdleAgg /\ IdleBus /\ IdleUow /\ IdleSvc /\ IdleRace /\ IdleRepo /\ IdlePromo
    /\ IdleMoney /\ IdleTx /\ IdleRsv /\ IdleTwin
    /\ IdleLru
    /\ invItem \in ItemQuantities
    /\ invItemRet = [op |-> "new", qty |-> invItem, ok |-> TRUE, err |-> ""]

NextItem == ItemReserve \/ ItemRestock

SpecItem == InitItem /\ [][NextItem]_vars

-----------------------------------------------------------------------------
(* One repository driven directly by a caller that constructs entities,    *)
(* adds, updates and gets them, and assigns to fields of the one it holds  *)

RepoIds == {"id-1", "id-2"}

NotRepo == <<aggVars, busVars, uowVars, svcVars, raceVars, itemVars, promoVars, moneyVars, txVars, rsvVars, twinVars, lruVars>>

RepoCall(op, id, ok, e) ==
    repoRet' = [op |-> op, id |-> id, ok |-> ok, found |-> e.some, data |-> e.data]

\* the field values an entity is constructed with: a Product, which is
\* never assigned to afterwards, with any of them
ConstructData(kind) == IF kind = "products" THEN 0..MaxData ELSE {0}

\* entity = Order(...) / Product(...) / InventoryItem(...) / Customer(...)
RepoConstruct ==
    \E id \in RepoIds, d \in ConstructData(repoKind) :
        /\ held' = [some |-> TRUE, id |-> id, data |-> d, alias |-> FALSE]
        /\ RepoCall("construct", id, TRUE, held')
        /\ UNCHANGED <<repoKind, repoStore, repoCache, NotRepo>>

RepoAdd ==
    LET r == Repo_add(repoKind, repoStore, held)
    IN  /\ held.some
        /\ repoStore' = r.store
        /\ held' = r.e
        /\ RepoCall("add", held.id, r.ok, r.e)
        /\ UNCHANGED <<repoKind, repoCache, NotRepo>>

RepoUpdate ==
    LET r == Repo_update(repoKind, repoStore, held)
    IN  /\ held.some
        /\ Repo_has_update(repoKind)
        /\ repoStore' = r.store
        /\ held' = r.e
        /\ RepoCall("update", held.id, r.ok, r.e)
        /\ UNCHANGED <<repoKind, repoCache, NotRepo>>

RepoGet ==
    \E id \in RepoIds :
        LET r == Repo_get(repoKind, repoStore, repoCache, id)
        IN  /\ held' = r.e
            /\ repoCache' = r.cache
            /\ RepoCall("get", id, TRUE, r.e)
            /\ UNCHANGED <<repoKind, repoStore, NotRepo>>

\* an assignment to a field of the held Order, InventoryItem or Customer;
\* products are replaced, never assigned to
RepoMutate ==
    /\ held.some
    /\ repoKind # "products"
    /\ held.data < MaxData
    /\ held' = [held EXCEPT !.data = @ + 1]
    /\ repoStore' = IF held.alias THEN Stored(repoStore, held.id, held.data + 1)
                    ELSE repoStore
    /\ RepoCall("mutate", held.id, TRUE, held')
    /\ UNCHANGED <<repoKind, repoCache, NotRepo>>

InitRepo ==
    /\ IdleAgg /\ IdleBus /\ IdleUow /\ IdleSvc /\ IdleRace /\ IdleItem /\ IdlePromo
    /\ IdleMoney /\ IdleTx /\ IdleRsv /\ IdleTwin
    /\ IdleLru
    /\ repoKind \in RepoKinds
    /\ repoStore = <<>>
    /\ repoCache = <<>>
    /\ held = NoEntity
    /\ repoRet = [op |-> "new", id |-> "", ok |-> TRUE, found |-> FALSE, data |-> 0]

NextRepo ==
    \/ RepoConstruct
    \/ RepoAdd
    \/ RepoUpdate
    \/ RepoGet
    \/ RepoMutate

SpecRepo == InitRepo /\ [][NextRepo]_vars

-----------------------------------------------------------------------------
(* CompositePromotion.discount_for applied to any list of specifications,  *)
(* any order and any customer                                              *)

\* products whose prices put 30% of a subtotal on, below and above a half
PromoProducts ==
    {Product("SKU-P5", "p5", 5, "KRW", "c"), Product("SKU-P7", "p7", 7, "KRW", "c"),
     Product("SKU-P15", "p15", 15, "KRW", "c")}
PromoQtys == {1, 2}

\* the specifications a composite is built from
PromoSpecs ==
    {MinAmountSpec(10, 5), MinAmountSpec(0, 50),
     FirstPurchaseSpec([amount |-> 3, currency |-> "KRW"]),
     FirstPurchaseSpec([amount |-> 1, currency |-> "USD"]),
     CategoryBundleSpec(2)}

\* sequences over S of length n, and of length up to n
SeqsOfLen(S, n) == [1..n -> S]
SeqsUpTo(S, n) == UNION {SeqsOfLen(S, k) : k \in 0..n}

\* the order a caller gets by add_line of the items, one after the other
RECURSIVE OrderOf(_, _)
OrderOf(o, items) ==
    IF items = <<>> THEN o
    ELSE OrderOf(Order_add_line(o, Head(items)[1], Head(items)[2]).o, Tail(items))

PromoOrders ==
    {OrderOf(NewOrder("ORD-1", "CUST-001"), items) :
        items \in SeqsUpTo(PromoProducts \X PromoQtys, MaxLines)}

PromoCustomers ==
    {[id |-> "CUST-001", first_purchase_done |-> b] : b \in BOOLEAN}

NotPromo == <<aggVars, busVars, uowVars, svcVars, raceVars, itemVars, repoVars, moneyVars, txVars, rsvVars, twinVars, lruVars>>

PromoDiscountFor ==
    LET r == CompositePromotion_discount(promoArgs.specs, promoArgs.order,
                                         promoArgs.customer)
    IN  /\ ~promoRet.called
        /\ promoRet' = IF r.ok
                       THEN [called |-> TRUE, ok |-> TRUE, amount |-> r.v.amount,
                             currency |-> r.v.currency]
                       ELSE [called |-> TRUE, ok |-> FALSE, amount |-> 0,
                             currency |-> ""]
        /\ UNCHANGED <<promoArgs, NotPromo>>

InitPromo ==
    /\ IdleAgg /\ IdleBus /\ IdleUow /\ IdleSvc /\ IdleRace /\ IdleItem /\ IdleRepo
    /\ IdleMoney /\ IdleTx /\ IdleRsv /\ IdleTwin
    /\ IdleLru
    /\ promoArgs \in [specs : SeqsUpTo(PromoSpecs, MaxSpecs), order : PromoOrders,
                      customer : PromoCustomers]
    /\ promoRet = [called |-> FALSE, ok |-> TRUE, amount |-> 0, currency |-> "KRW"]

NextPromo == PromoDiscountFor

SpecPromo == InitPromo /\ [][NextPromo]_vars

-----------------------------------------------------------------------------
(* The bootstrapped service driven with the items of the __main__ demo:    *)
(* the operations in any order, the items in the demo's order while the    *)
(* order is a draft                                                        *)

\* the add_item calls of the demo
DemoItems == <<<<"SKU-APPLE", 6>>, <<"SKU-BEEF", 1>>, <<"SKU-MILK", 3>>>>

DemoAddItem ==
    \E oid \in OrderIdPool :
        /\ oid \in DOMAIN orders
        /\ orders[oid].status = "DRAFT"
        /\ Len(orders[oid].lines) < Len(DemoItems)
        /\ LET item == DemoItems[Len(orders[oid].lines) + 1]
           IN  SvcCall("add_item", oid, "", <<>>,
                       Service_add_item(World, oid, item[1], item[2]))

InitDemo ==
    /\ IdleAgg /\ IdleBus /\ IdleUow /\ IdleRace /\ IdleComp
    /\ orders = <<>>
    /\ customers = InitialCustomers
    /\ inventory = BootStock
    /\ idem = <<>>
    /\ charges = <<>>
    /\ gatewayCalls = 0
    /\ promoRuns = <<>>
    /\ delivered = <<>>
    /\ svcRet = [op |-> "bootstrap", order_id |-> "", key |-> "", exc |-> "",
                 err |-> "", ret |-> "", outs |-> <<>>, attempts |-> 0,
                 flushed |-> <<>>]

NextDemo ==
    \/ CreateOrder
    \/ DemoAddItem
    \/ ApplyPromotions
    \/ Submit
    \/ Checkout
    \/ Ship

SpecDemo == InitDemo /\ [][NextDemo]_vars

-----------------------------------------------------------------------------
(* One Money operation applied to any operands                             *)

Currencies == {"KRW", "USD"}
\* the valid Money values: the ones the constructor lets through
MoneyValues == [amount : 0..MaxAmount, currency : Currencies]
\* scalars k, in hundredths: negative, zero, fractions, whole numbers
MoneyScalars == {-100, 0, 50, 95, 100, 250}
\* amounts handed to the constructor
MoneyAmounts == -1..MaxAmount

NotMoney == <<aggVars, busVars, uowVars, svcVars, raceVars, itemVars, repoVars,
              promoVars, txVars, rsvVars, twinVars, lruVars>>

MoneyCall(op, r) ==
    /\ ~moneyRet.called
    /\ moneyRet' = [called |-> TRUE, op |-> op, ok |-> r.ok,
                    err |-> IF r.ok THEN "" ELSE r.err,
                    v |-> IF r.ok THEN r.v ELSE Money_zero]
    /\ UNCHANGED <<moneyArgs, NotMoney>>

MoneyNew == MoneyCall("new", Money(moneyArgs.amount, moneyArgs.a.currency))
MoneyAdd == MoneyCall("add", Money_add(moneyArgs.a, moneyArgs.b))
MoneySub == MoneyCall("sub", Money_sub(moneyArgs.a, moneyArgs.b))
MoneyMul == MoneyCall("mul", Money_mul(moneyArgs.a, moneyArgs.pct))

InitMoney ==
    /\ IdleAgg /\ IdleBus /\ IdleUow /\ IdleSvc /\ IdleRace
    /\ IdleItem /\ IdleRepo /\ IdlePromo /\ IdleTx /\ IdleRsv /\ IdleTwin
    /\ IdleLru
    /\ moneyArgs \in [a : MoneyValues, b : MoneyValues, pct : MoneyScalars,
                      amount : MoneyAmounts]
    /\ moneyRet = [called |-> FALSE, op |-> "", ok |-> TRUE, err |-> "", v |-> Money_zero]

NextMoney == MoneyNew \/ MoneyAdd \/ MoneySub \/ MoneyMul

SpecMoney == InitMoney /\ [][NextMoney]_vars

-----------------------------------------------------------------------------
(* The transactional create_order called repeatedly with any items         *)

TxSkus == {"A", "B"}
TxQtys == {1, 2}
\* skus and quantities requests name; "Z" has no Product row
TxItems == [sku : TxSkus, qty : TxQtys] \cup {[sku |-> "Z", qty |-> 1]}

NotTx == <<aggVars, busVars, uowVars, svcVars, raceVars, itemVars, repoVars,
           promoVars, moneyVars, rsvVars, twinVars, lruVars>>

TxCreateOrder ==
    \E items \in SeqsUpTo(TxItems, MaxTxItems) :
        LET order == Cardinality(db.orders) + 1
            r     == Tx_create_order(db, order, items)
        IN  /\ Cardinality(db.orders) < MaxOrderRows
            /\ db' = r.d
            /\ emitted' = emitted \o r.ran
            /\ txRet' = [op |-> "create_order", items |-> items, exc |-> r.exc,
                         order |-> order]
            /\ UNCHANGED NotTx

InitTx ==
    /\ IdleAgg /\ IdleBus /\ IdleUow /\ IdleSvc /\ IdleRace
    /\ IdleItem /\ IdleRepo /\ IdlePromo /\ IdleMoney /\ IdleRsv /\ IdleTwin
    /\ IdleLru
    /\ db \in [stock : [TxSkus -> 0..MaxTxStock], orders : {{}}, order_items : {{}}]
    /\ emitted = <<>>
    /\ txRet = [op |-> "new", items |-> <<>>, exc |-> "", order |-> 0]

NextTx == TxCreateOrder

SpecTx == InitTx /\ [][NextTx]_vars

-----------------------------------------------------------------------------
(* Properties of the Order aggregate, checked under SpecOrder              *)

RECURSIVE SumLines(_)
\* sum of unit_price x qty over the lines, independent of the currency
SumLines(lines) ==
    IF lines = <<>>
    THEN 0
    ELSE lines[1].unit_price.amount * lines[1].qty + SumLines(Tail(lines))

\* every line is priced in the currency of the order's totals, which is the
\* case exactly when every add_line made so far was a legal one
LinesInOrderCurrency(o) ==
    \A i \in 1..Len(o.lines) : o.lines[i].unit_price.currency = Money_zero.currency

TotalsConsistent(o) ==
    /\ o.subtotal = [amount |-> SumLines(o.lines), currency |-> "KRW"]
    /\ o.grand_total.amount = o.subtotal.amount - o.discount_total.amount
    /\ o.grand_total.currency = "KRW"
    /\ o.discount_total.amount <= o.subtotal.amount
    /\ o.discount_total.amount >= 0

C3_TotalsInv == LinesInOrderCurrency(agg) => TotalsConsistent(agg)

\* the step is an apply_discount whose amount would push the cumulative
\* discount above the subtotal
C3_ExceedingDiscountStep ==
    /\ aggRet'.op = "apply_discount"
    /\ aggRet'.arg.amount >= 0
    /\ agg.discount_total.amount + aggRet'.arg.amount > agg.subtotal.amount

C3_ExceedingDiscountFails ==
    C3_ExceedingDiscountStep =>
        /\ ~aggRet'.ok
        /\ agg'.discount_total = agg.discount_total
        /\ agg'.grand_total = agg.grand_total

\* C3: after any sequence of legal add_line and apply_discount calls,
\* subtotal is the sum of unit_price x qty over the lines, grand_total =
\* subtotal - discount_total and discount_total <= subtotal; an
\* apply_discount that would push the cumulative discount above subtotal
\* fails and leaves discount_total and grand_total unchanged.
C3_Totals == []C3_TotalsInv /\ [][C3_ExceedingDiscountFails]_vars

\* a discounted two-line order on which an exceeding apply_discount was refused
C3_Witness ==
    /\ Len(agg.lines) = 2
    /\ LinesInOrderCurrency(agg)
    /\ agg.discount_total.amount > 0
    /\ aggRet.op = "apply_discount"
    /\ ~aggRet.ok
    /\ aggRet.err = "discount exceeds subtotal"

AggTransitions == {"add_line", "submit", "mark_paid", "ship", "cancel"}

C4_ShippedIsFinal ==
    agg.status = "SHIPPED" =>
        /\ agg'.status = "SHIPPED"
        /\ aggRet'.op \in AggTransitions => ~aggRet'.ok

C4_CancelAfterPaymentFails ==
    (agg.status \in {"PAID", "SHIPPED"} /\ aggRet'.op = "cancel") =>
        /\ ~aggRet'.ok
        /\ agg'.status = agg.status
        /\ agg'.events = agg.events

\* C4: once an order is SHIPPED none of add_line, submit, mark_paid, ship
\* or cancel succeeds and the status stays SHIPPED; cancel fails whenever
\* the status is PAID or SHIPPED and leaves status and events unchanged.
C4_Monotonic == [][C4_ShippedIsFinal /\ C4_CancelAfterPaymentFails]_vars

\* a cancel was attempted on a SHIPPED order and refused
C4_Witness ==
    /\ agg.status = "SHIPPED"
    /\ aggRet.op = "cancel"
    /\ ~aggRet.ok

C5_CancelStep ==
    aggRet'.op = "cancel" =>
        /\ aggRet'.ok <=> agg.status \in {"DRAFT", "SUBMITTED"}
        /\ aggRet'.ok =>
               /\ agg'.status = "CANCELED"
               /\ agg'.events = Append(agg.events, OrderCanceled(agg.id, aggRet'.arg))
        /\ ~aggRet'.ok => agg'.events = agg.events

\* C5: cancel succeeds (status CANCELED, one OrderCanceled event appended)
\* if and only if the status is DRAFT or SUBMITTED; in every other status,
\* CANCELED included, it fails and appends no event.
C5_CancelOnlyFromDraftOrSubmitted == [][C5_CancelStep]_vars

C6_SubmitStep ==
    aggRet'.op = "submit" =>
        /\ aggRet'.ok <=> (agg.status = "DRAFT" /\ agg.lines # <<>>)
        /\ aggRet'.ok =>
               /\ agg'.status = "SUBMITTED"
               /\ agg'.events = Append(agg.events, OrderSubmitted(agg.id))

C6_MarkPaidStep ==
    aggRet'.op = "mark_paid" =>
        /\ aggRet'.ok <=> agg.status = "SUBMITTED"
        /\ aggRet'.ok =>
               /\ agg'.status = "PAID"
               /\ agg'.events = Append(agg.events, PaymentReceived(agg.id, aggRet'.arg))

C6_ShipStep ==
    aggRet'.op = "ship" =>
        /\ aggRet'.ok <=> agg.status = "PAID"
        /\ aggRet'.ok =>
               /\ agg'.status = "SHIPPED"
               /\ agg'.events = Append(agg.events, OrderShipped(agg.id, aggRet'.arg))

C6_FailingTransition ==
    (aggRet'.op \in {"submit", "mark_paid", "ship"} /\ ~aggRet'.ok) =>
        /\ agg'.status = agg.status
        /\ agg'.events = agg.events

\* C6: submit succeeds only from DRAFT with at least one line, mark_paid
\* only from SUBMITTED, ship only from PAID; a successful transition moves
\* to the next status and appends exactly one event of its variant; a
\* failing call leaves status and events unchanged.
C6_Lifecycle ==
    [][C6_SubmitStep /\ C6_MarkPaidStep /\ C6_ShipStep /\ C6_FailingTransition]_vars

\* the whole path was walked: three events, one per transition, in order
C6_Witness ==
    /\ agg.status = "SHIPPED"
    /\ aggRet.op = "ship"
    /\ aggRet.ok
    /\ Len(agg.events) = 3
    /\ agg.events[1].type = "OrderSubmitted"
    /\ agg.events[2].type = "PaymentReceived"
    /\ agg.events[3].type = "OrderShipped"

C7_RefusedAddLine ==
    (aggRet'.op = "add_line" /\ (agg.status # "DRAFT" \/ aggRet'.arg.qty <= 0)) =>
        /\ ~aggRet'.ok
        /\ agg'.lines = agg.lines
        /\ agg'.subtotal = agg.subtotal
        /\ agg'.discount_total = agg.discount_total
        /\ agg'.grand_total = agg.grand_total

C7_FrozenAfterDraft ==
    agg.status # "DRAFT" =>
        /\ agg'.lines = agg.lines
        /\ agg'.subtotal = agg.subtotal

\* C7: add_line on an order that is not in DRAFT fails, add_line with
\* qty <= 0 fails, and both leave lines and the three totals unchanged; the
\* lines and the subtotal never change once the order has left DRAFT.
C7_LinesOnlyInDraft == [][C7_RefusedAddLine /\ C7_FrozenAfterDraft]_vars

\* an add_line with a positive quantity was refused on a submitted order
C7_Witness ==
    /\ agg.status = "SUBMITTED"
    /\ aggRet.op = "add_line"
    /\ aggRet.arg.qty > 0
    /\ ~aggRet.ok
    /\ aggRet.err = "Can only add lines in DRAFT"

-----------------------------------------------------------------------------
(* Properties of the event bus, checked under SpecBus                      *)

\* the invocations owed to one event: its type's handlers, in subscription order
OwedTo(handlers, e) ==
    [j \in 1..Len(handlers[e.type]) |-> [handler |-> handlers[e.type][j], event |-> e]]

RECURSIVE Owed(_, _)
Owed(handlers, events) ==
    IF events = <<>>
    THEN <<>>
    ELSE OwedTo(handlers, Head(events)) \o Owed(handlers, Tail(events))

Delivered(log) == [k \in 1..Len(log) |-> [handler |-> log[k].handler, event |-> log[k].event]]

\* C9: publish(events) goes through the events in the given order and, for
\* each, invokes every handler subscribed to its variant in subscription
\* order; a raising handler stops neither the remaining handlers nor the
\* remaining events and publish itself returns; handlers of other variants
\* are not invoked.
C9_PublishDelivers ==
    busRet.op = "publish" =>
        /\ busRet.ok
        /\ Delivered(busLog) = Owed(busHandlers, busRet.arg)
        /\ \A k \in 1..Len(busLog) :
               \E j \in 1..Len(busHandlers[busLog[k].event.type]) :
                   busHandlers[busLog[k].event.type][j] = busLog[k].handler

\* two events of different variants published, a raising handler subscribed
\* first to the first one's variant, and deliveries made after it raised
C9_Witness ==
    /\ busRet.op = "publish"
    /\ Len(busRet.arg) = 2
    /\ busRet.arg[1].type # busRet.arg[2].type
    /\ Len(busHandlers[busRet.arg[1].type]) = 2
    /\ Len(busHandlers[busRet.arg[2].type]) >= 1
    /\ busHandlers[busRet.arg[1].type][1] # busHandlers[busRet.arg[2].type][1]
    /\ busLog[1].raised
    /\ Len(busLog) >= 3
    /\ ~busLog[2].raised

-----------------------------------------------------------------------------
(* Properties of the unit of work, checked under SpecUow                   *)

C8_EnterClears ==
    (uowRet'.op = "enter" /\ ~uow.active) => uow'.events = <<>>

\* the step leaves the scope; uowRet'.exc is what the body raised, "" if nothing
C8_ExitStep == uowRet'.op = "exit" /\ uow.active

C8_NormalExitFlushes ==
    (C8_ExitStep /\ uowRet'.exc = "") =>
        /\ Delivered(uowLog') = Owed(BootHandlers, uow.events)
        /\ \A k \in 1..Len(uowLog') : ~uowLog'[k].raised
        /\ uow'.events = <<>>
        /\ ~uowRet'.rolled_back
        /\ uowRet'.raised = ""

C8_ExceptionalExitFlushesNothing ==
    (C8_ExitStep /\ uowRet'.exc # "") =>
        /\ uowLog' = <<>>
        /\ uowRet'.rolled_back
        /\ uowRet'.raised = uowRet'.exc

\* C8: entering a scope clears the accumulator; a normal exit publishes the
\* accumulated events in accumulation order and then clears the
\* accumulator; an exceptional exit rolls back, publishes no event of the
\* scope, and the exception goes on to the caller.
C8_UnitOfWork ==
    [][C8_EnterClears /\ C8_NormalExitFlushes /\ C8_ExceptionalExitFlushesNothing]_vars

\* a scope with two events accumulated was left by an exception: rolled
\* back, nothing published, the exception handed on
C8_Witness ==
    /\ uowRet.op = "exit"
    /\ uowRet.exc = "ValueError"
    /\ uowRet.raised = "ValueError"
    /\ uowRet.rolled_back
    /\ Len(uow.events) = 2
    /\ uowLog = <<>>

-----------------------------------------------------------------------------
(* Properties of the service with one caller, checked under Spec           *)

\* the step is a checkout of the order and key whose checkout just returned
C1_RepeatedCheckoutStep ==
    /\ svcRet.op = "checkout"
    /\ svcRet.exc = ""
    /\ svcRet'.op = "checkout"
    /\ svcRet'.order_id = svcRet.order_id
    /\ svcRet'.key = svcRet.key
    /\ svcRet' # svcRet

C1_SecondCheckoutReturnsSamePayment ==
    C1_RepeatedCheckoutStep =>
        /\ svcRet'.exc = ""
        /\ svcRet'.ret = svcRet.ret

\* no two charges that the gateway performed carry the same idem_key
C1_OneChargePerKey ==
    \A i, j \in 1..Len(charges) : charges[i].key = charges[j].key => i = j

\* C1: two checkout calls made one after the other with the same key and
\* the same order both return, with the same payment id; over any sequence
\* of checkouts the gateway performs at most one charge per key.
C1_IdempotentCheckout ==
    []C1_OneChargePerKey /\ [][C1_SecondCheckoutReturnsSamePayment]_vars

\* the step is a checkout that gets as far as charging the gateway
C10_ChargingStep ==
    /\ svcRet'.op = "checkout"
    /\ svcRet'.order_id \in DOMAIN orders
    /\ orders[svcRet'.order_id].status = "SUBMITTED"
    /\ orders[svcRet'.order_id].customer_id \in DOMAIN customers
    /\ IdemKeyOrDefault(svcRet'.key, svcRet'.order_id) \notin DOMAIN idem

\* the first n invocations of the gateway made by the call failed transiently
TransientUpTo(outs, n) == \A m \in 1..n : m <= Len(outs) => outs[m] = "RuntimeError"

C10_Charges == C10_ChargingStep => svcRet'.attempts >= 1

C10_AllAttemptsFail ==
    (C10_ChargingStep /\ TransientUpTo(svcRet'.outs, Len(svcRet'.outs))) =>
        /\ svcRet'.attempts = RetryTimes
        /\ svcRet'.exc = "RuntimeError"
        /\ orders' = orders
        /\ orders'[svcRet'.order_id].status = "SUBMITTED"
        /\ idem' = idem
        /\ customers' = customers
        /\ svcRet'.flushed = <<>>
        /\ delivered' = delivered

C10_SucceedsOnAttemptK ==
    \A k \in 1..RetryTimes :
        (/\ C10_ChargingStep
         /\ Len(svcRet'.outs) >= k
         /\ svcRet'.outs[k] = "ok"
         /\ TransientUpTo(svcRet'.outs, k - 1)) =>
            /\ svcRet'.exc = ""
            /\ svcRet'.attempts = k
            /\ orders'[svcRet'.order_id].status = "PAID"

\* C10: when the gateway fails transiently on every attempt, checkout
\* charges exactly 3 times and raises the last failure, leaving the order
\* SUBMITTED, the key uncached, the customer unchanged and nothing
\* published; when the gateway succeeds on attempt k <= 3, checkout
\* succeeds after exactly k invocations.
C10_BoundedRetry ==
    [][C10_Charges /\ C10_AllAttemptsFail /\ C10_SucceedsOnAttemptK]_vars

\* a checkout gave up after three transient failures of the gateway
C10_Witness ==
    /\ svcRet.op = "checkout"
    /\ svcRet.exc = "RuntimeError"
    /\ svcRet.attempts = 3
    /\ svcRet.outs = <<"RuntimeError", "RuntimeError", "RuntimeError">>
    /\ orders[svcRet.order_id].status = "SUBMITTED"
    /\ idem = <<>>

\* the step is a checkout call
C11_CheckoutStep == svcRet'.op = "checkout"

\* the order of the call is stored, its customer is stored, and it is SUBMITTED
C11_Chargeable(oid) ==
    /\ oid \in DOMAIN orders
    /\ orders[oid].customer_id \in DOMAIN customers
    /\ orders[oid].status = "SUBMITTED"

\* PaymentReceived events among the events of an order
PaymentEvents(o) ==
    {k \in 1..Len(o.events) : o.events[k].type = "PaymentReceived"}

C11_RefusedUnlessSubmitted ==
    (C11_CheckoutStep /\ ~C11_Chargeable(svcRet'.order_id)) =>
        /\ svcRet'.exc = "ValueError"
        /\ svcRet'.attempts = 0
        /\ gatewayCalls' = gatewayCalls
        /\ charges' = charges
        /\ orders' = orders
        /\ customers' = customers
        /\ idem' = idem

C11_SuccessPays ==
    (C11_CheckoutStep /\ svcRet'.exc = "") =>
        LET o == orders'[svcRet'.order_id]
        IN  /\ C11_Chargeable(svcRet'.order_id)
            /\ o.status = "PAID"
            /\ Cardinality(PaymentEvents(o)) = 1
            /\ \A k \in PaymentEvents(o) : o.events[k].payment_id = svcRet'.ret
            /\ svcRet'.ret # ""
            /\ customers'[o.customer_id].first_purchase_done

C11_FlagNeverReset ==
    \A c \in DOMAIN customers :
        customers[c].first_purchase_done =>
            c \in DOMAIN customers' /\ customers'[c].first_purchase_done

-----------------------------------------------------------------------------
(* Properties of InventoryItem, checked under SpecItem                     *)

C12_Reserve ==
    invItemRet'.op = "reserve" =>
        IF invItemRet'.qty <= 0 \/ invItemRet'.qty > invItem
        THEN ~invItemRet'.ok /\ invItem' = invItem
        ELSE invItemRet'.ok /\ invItem' = invItem - invItemRet'.qty

C12_Restock ==
    invItemRet'.op = "restock" =>
        IF invItemRet'.qty <= 0
        THEN ~invItemRet'.ok /\ invItem' = invItem
        ELSE invItemRet'.ok /\ invItem' = invItem + invItemRet'.qty

C12_NeverNegative == invItem >= 0

\* C12: reserve(qty) on an item of quantity q fails and leaves q when
\* qty <= 0 or qty > q, and otherwise leaves q - qty; restock(qty) fails for
\* qty <= 0 and otherwise adds qty; the quantity is never negative.
C12_InventoryReservation ==
    []C12_NeverNegative /\ [][C12_Reserve /\ C12_Restock]_vars

\* a reservation took the whole remaining stock of an item
C12_Witness ==
    /\ invItemRet.op = "reserve"
    /\ invItemRet.ok
    /\ invItemRet.qty >= 2
    /\ invItem = 0

-----------------------------------------------------------------------------
(* Properties of the repositories, checked under SpecRepo                  *)

C13_AddDuplicateFails ==
    (repoRet'.op = "add" /\ repoRet'.id \in DOMAIN repoStore) =>
        ~repoRet'.ok /\ repoStore' = repoStore

C13_UpdateAbsentFails ==
    (repoRet'.op = "update" /\ repoRet'.id \notin DOMAIN repoStore) =>
        ~repoRet'.ok /\ repoStore' = repoStore

C13_GetReturnsStored ==
    repoRet'.op = "get" =>
        IF repoRet'.id \in DOMAIN repoStore
        THEN repoRet'.found /\ repoRet'.data = repoStore[repoRet'.id]
        ELSE ~repoRet'.found

\* C13: in every in-memory repository add fails when the id is already
\* stored and leaves the stored entity unchanged, update fails when the id
\* is absent and stores nothing, and get returns the stored entity or absent.
C13_RepositoryContract ==
    [][C13_AddDuplicateFails /\ C13_UpdateAbsentFails /\ C13_GetReturnsStored]_vars

\* C14: assigning to a field of an Order, Customer or InventoryItem obtained
\* from get, or passed to add or update, does not change what the
\* repository stores, and so returns from a later get, until update is called.
C14_IndependentReads ==
    [][repoRet'.op = "mutate" => repoStore' = repoStore]_vars

-----------------------------------------------------------------------------
(* Properties of CompositePromotion, checked under SpecPromo               *)

\* the discounts of the specifications of promoArgs, and their sum
PromoDiscounts ==
    [k \in 1..Len(promoArgs.specs) |->
        PromotionSpec_discount(promoArgs.specs[k], promoArgs.order, promoArgs.customer)]

RECURSIVE SumAmounts(_)
SumAmounts(ds) == IF ds = <<>> THEN 0 ELSE Head(ds).amount + SumAmounts(Tail(ds))

\* c is 30% of the subtotal rounded to an integer, a half going either way
IsCapOf(c, subtotal) ==
    LET diff == 100 * c - DiscountCapPct * subtotal
    IN  -50 <= diff /\ diff <= 50

PromoAllKRW == \A k \in 1..Len(PromoDiscounts) : PromoDiscounts[k].currency = "KRW"

-----------------------------------------------------------------------------
(* Properties of the demo scenario, checked under SpecDemo                 *)

\* the order holds the first n items of the demo, as lines
HasDemoLines(o, n) ==
    /\ Len(o.lines) = n
    /\ \A k \in 1..n : o.lines[k].sku = DemoItems[k][1] /\ o.lines[k].qty = DemoItems[k][2]

\* the order of the scenario after apply_promotions, in the given status
ScenarioOrder(oid, status) ==
    /\ oid \in DOMAIN orders
    /\ HasDemoLines(orders[oid], 3)
    /\ orders[oid].customer_id = "CUST-001"
    /\ orders[oid].discount_total.amount = 6425
    /\ orders[oid].status = status

Totals(o) == <<o.subtotal, o.discount_total, o.grand_total>>

C16_Subtotals ==
    \A oid \in DOMAIN orders :
        /\ HasDemoLines(orders[oid], 1) => orders[oid].subtotal.amount = 33000
        /\ HasDemoLines(orders[oid], 2) => orders[oid].subtotal.amount = 61900
        /\ HasDemoLines(orders[oid], 3) => orders[oid].subtotal.amount = 68500

C16_AddItemSucceeds ==
    (svcRet'.op = "add_item" /\ orders[svcRet'.order_id].discount_total.amount = 0) =>
        /\ svcRet'.exc = ""
        /\ HasDemoLines(orders'[svcRet'.order_id], Len(orders[svcRet'.order_id].lines) + 1)

C16_Promotions ==
    (/\ svcRet'.op = "apply_promotions"
     /\ svcRet'.order_id \in DOMAIN orders
     /\ HasDemoLines(orders[svcRet'.order_id], 3)
     /\ orders[svcRet'.order_id].status = "DRAFT"
     /\ orders[svcRet'.order_id].discount_total.amount = 0
     /\ orders[svcRet'.order_id].customer_id = "CUST-001"
     /\ ~customers["CUST-001"].first_purchase_done) =>
        /\ svcRet'.exc = ""
        /\ orders'[svcRet'.order_id].discount_total.amount = 6425
        /\ 6425 < RoundHalfEven(68500, DiscountCapPct, 100)
        /\ RoundHalfEven(68500, DiscountCapPct, 100) = 20550
        /\ orders'[svcRet'.order_id].grand_total.amount = 62075
        /\ orders'[svcRet'.order_id].subtotal.amount = 68500

C16_Submit ==
    (svcRet'.op = "submit" /\ ScenarioOrder(svcRet'.order_id, "DRAFT")) =>
        /\ svcRet'.exc = ""
        /\ orders'[svcRet'.order_id].status = "SUBMITTED"
        /\ Totals(orders'[svcRet'.order_id]) = Totals(orders[svcRet'.order_id])

\* the checkout of the scenario succeeds unless the gateway fails it, and
\* then the gateway was given the grand total
C16_Checkout ==
    (svcRet'.op = "checkout" /\ ScenarioOrder(svcRet'.order_id, "SUBMITTED")) =>
        /\ svcRet'.exc = "" <=> svcRet'.outs[Len(svcRet'.outs)] = "ok"
        /\ svcRet'.exc = "" =>
              /\ orders'[svcRet'.order_id].status = "PAID"
              /\ Len(charges') = Len(charges) + 1
              /\ charges'[Len(charges')].amount = 62075
              /\ charges'[Len(charges')].order_id = svcRet'.order_id
              /\ Totals(orders'[svcRet'.order_id]) = Totals(orders[svcRet'.order_id])

C16_Ship ==
    (svcRet'.op = "ship" /\ ScenarioOrder(svcRet'.order_id, "PAID")) =>
        /\ svcRet'.exc = ""
        /\ orders'[svcRet'.order_id].status = "SHIPPED"
        /\ Totals(orders'[svcRet'.order_id]) = Totals(orders[svcRet'.order_id])

\* C16: for a customer without a prior purchase, the three add_item calls
\* of the demo give subtotals 33000, 61900 and 68500; apply_promotions
\* gives discount_total 6425, below the cap of 20550, and grand_total
\* 62075; submit, checkout and ship then succeed in that order, the gateway
\* is given 62075, and the order ends SHIPPED with the totals unchanged.
C16_EndToEnd ==
    /\ []C16_Subtotals
    /\ [][/\ C16_AddItemSucceeds
          /\ C16_Promotions
          /\ C16_Submit
          /\ C16_Checkout
          /\ C16_Ship]_vars

\* the scenario ran to its end
C16_Witness ==
    /\ svcRet.op = "ship"
    /\ svcRet.exc = ""
    /\ ScenarioOrder(svcRet.order_id, "SHIPPED")
    /\ Totals(orders[svcRet.order_id]) =
         <<[amount |-> 68500, currency |-> "KRW"], [amount |-> 6425, currency |-> "KRW"],
           [amount |-> 62075, currency |-> "KRW"]>>
    /\ Len(charges) = 1
    /\ charges[1].amount = 62075
    /\ promoRuns[svcRet.order_id] = 1

-----------------------------------------------------------------------------
(* Properties of Money, checked under SpecMoney                            *)

C17_SameCurrency == moneyArgs.a.currency = moneyArgs.b.currency

C17_Add ==
    moneyRet.op = "add" =>
        IF C17_SameCurrency
        THEN moneyRet.ok => /\ moneyRet.v.currency = moneyArgs.a.currency
                            /\ moneyRet.v.amount = moneyArgs.a.amount + moneyArgs.b.amount
        ELSE ~moneyRet.ok

C17_Sub ==
    moneyRet.op = "sub" =>
        IF C17_SameCurrency /\ moneyArgs.b.amount <= moneyArgs.a.amount
        THEN moneyRet.ok => /\ moneyRet.v.currency = moneyArgs.a.currency
                            /\ moneyRet.v.amount = moneyArgs.a.amount - moneyArgs.b.amount
        ELSE ~moneyRet.ok

C17_Mul ==
    (moneyRet.op = "mul" /\ moneyRet.ok) => moneyRet.v.currency = moneyArgs.a.currency

C17_New ==
    moneyRet.op = "new" =>
        IF moneyArgs.amount < 0 THEN ~moneyRet.ok
        ELSE moneyRet.ok /\ moneyRet.v.amount = moneyArgs.amount

\* C17: + and - on equal currencies and * by a scalar return a Money of the
\* same currency with a non-negative amount or fail; + and - on different
\* currencies fail; a - b fails when b.amount > a.amount; Money with a
\* negative amount fails; no operation yields a negative amount.
C17_MoneyArithmetic ==
    moneyRet.called =>
        /\ C17_Add /\ C17_Sub /\ C17_Mul /\ C17_New
        /\ moneyRet.ok => moneyRet.v.amount >= 0

\* a subtraction in one currency was refused for going negative
C17_Witness ==
    /\ moneyRet.called
    /\ moneyRet.op = "sub"
    /\ ~moneyRet.ok
    /\ C17_SameCurrency
    /\ moneyArgs.b.amount > moneyArgs.a.amount

-----------------------------------------------------------------------------
(* Properties of the transactional create_order, checked under SpecTx      *)

\* some requested item names a product with less stock than its quantity
C18_StockFailure(items) ==
    \E k \in 1..Len(items) :
        items[k].sku \in DOMAIN db.stock /\ db.stock[items[k].sku] < items[k].qty

\* C18: when any requested item has less stock than its quantity,
\* create_order raises and the whole transaction is rolled back: no Order
\* row and no OrderItem row is added, the stock of every product is
\* unchanged, and the on_commit callback is not run.
C18_RollsBackOnStockFailure ==
    [][(txRet'.op = "create_order" /\ C18_StockFailure(txRet'.items)) =>
          /\ txRet'.exc # ""
          /\ db'.orders = db.orders
          /\ db'.order_items = db.order_items
          /\ db'.stock = db.stock
          /\ emitted' = emitted]_vars

\* a request failed on its second item after the first had been in stock
C18_Witness ==
    /\ txRet.op = "create_order"
    /\ txRet.exc = "ValueError"
    /\ Len(txRet.items) = 2
    /\ txRet.items[1].sku # txRet.items[2].sku
    /\ txRet.items[1].sku \in DOMAIN db.stock
    /\ db.stock[txRet.items[1].sku] >= txRet.items[1].qty
    /\ db.orders = {}
    /\ db.order_items = {}
    /\ emitted = <<>>

-----------------------------------------------------------------------------
(* Publication of domain events by the service scopes, checked under Spec  *)

\* no event has been handed to its subscriber more than once
C19_DeliveredOnce ==
    \A e \in DOMAIN delivered : delivered[e] <= 1

\* the scope of a call publishes no event that an earlier scope published
C19_NoRepublication ==
    \A k \in 1..Len(svcRet'.flushed) : CountOf(delivered, svcRet'.flushed[k]) = 0

\* C19: every domain event of an order is published exactly once: over
\* submit, checkout, ship on one order the subscribers never receive an
\* event twice, and the scope of a later operation publishes no event that
\* the scope of an earlier operation already published.
C19_PublishedExactlyOnce ==
    []C19_DeliveredOnce /\ [][C19_NoRepublication]_vars

-----------------------------------------------------------------------------
(* Properties of the retry around _charge, checked under Spec              *)

\* a gateway outcome that is a failure other than RuntimeError
C24_NotTransient(outcome) == outcome \notin {"ok", "RuntimeError"}

\* a failure that is not transient ends the call: it is the last invocation
\* of the gateway and it is what checkout raises
C24_NoRetryAfterOther ==
    svcRet'.op = "checkout" =>
        \A k \in 1..Len(svcRet'.outs) :
            C24_NotTransient(svcRet'.outs[k]) =>
                /\ k = svcRet'.attempts
                /\ gatewayCalls' = gatewayCalls + k
                /\ svcRet'.exc = svcRet'.outs[k]
                /\ orders' = orders

\* a checkout that fails before _charge never reaches the gateway
C24_NoRetryOfRefusal ==
    (svcRet'.op = "checkout" /\ svcRet'.exc = "ValueError") =>
        /\ svcRet'.attempts = 0
        /\ gatewayCalls' = gatewayCalls

\* C24: a failure of the gateway's charge that is not a RuntimeError is not
\* retried: the charge is invoked once and the failure leaves checkout at
\* once; the not-found and illegal-status failures of checkout are never
\* retried either.
C24_RetryOnlyTransient ==
    [][C24_NoRetryAfterOther /\ C24_NoRetryOfRefusal]_vars

\* a checkout of a SUBMITTED order whose first charge raised OSError
C24_Witness ==
    /\ svcRet.op = "checkout"
    /\ svcRet.outs = <<"OSError">>
    /\ svcRet.attempts = 1
    /\ svcRet.exc = "OSError"
    /\ orders[svcRet.order_id].status = "SUBMITTED"

-----------------------------------------------------------------------------
(* Properties of add_item and the inventory, checked under Spec            *)

\* the inventory store with no record for the sku
WithoutRecord(store, sku) == [s \in DOMAIN store \ {sku} |-> store[s]]

\* quantities a caller asks for that can exceed any stock
C21_Qtys == 1..(MaxStock + 1)

\* what the subscribers are handed when the scope of the call r is left
ScopeLog(r) ==
    UoW_exit([UoW_enter(UoW_new) EXCEPT !.events = r.events], BootHandlers, r.exc).log

\* add_item(oid, sku, qty) on the repositories as they are, the inventory
\* being store, fails and changes nothing
C21_FailsEntirely(store, oid, sku, qty) ==
    LET w == [World EXCEPT !.inventory = store]
        r == Service_add_item(w, oid, sku, qty)
    IN  /\ r.exc = "ValueError"
        /\ r.w.inventory = store
        /\ r.w.orders[oid].lines = orders[oid].lines
        /\ r.w.orders[oid].subtotal = orders[oid].subtotal
        /\ r.w.orders[oid].discount_total = orders[oid].discount_total
        /\ r.w.orders[oid].grand_total = orders[oid].grand_total
        /\ r.w.orders = orders
        /\ ScopeLog(r) = <<>>

\* C21: add_item with the strict policy and a qty greater than the stored
\* quantity, or for a product without inventory record, fails and leaves
\* the inventory, the order's lines and totals as they were and publishes
\* no event.
C21_StrictFailsEntirely ==
    \A oid \in DOMAIN orders, sku \in DOMAIN Catalog, qty \in C21_Qtys :
        /\ (sku \in DOMAIN inventory /\ inventory[sku] < qty)
             => C21_FailsEntirely(inventory, oid, sku, qty)
        /\ C21_FailsEntirely(WithoutRecord(inventory, sku), oid, sku, qty)

\* an add_item has just failed for want of stock on an order with a line
C21_Witness ==
    /\ svcRet.op = "add_item"
    /\ svcRet.exc = "ValueError"
    /\ svcRet.err = "insufficient inventory"
    /\ svcRet.flushed = <<>>
    /\ svcRet.order_id \in DOMAIN orders
    /\ Len(orders[svcRet.order_id].lines) = 1
    /\ \E sku \in DOMAIN inventory : inventory[sku] < InitialStock[sku]

\* add_item(oid, sku, qty) fails, adds no line and keeps qty of the stock
C23_FailsAndKeepsReservation(oid, sku, qty) ==
    LET r == Service_add_item(World, oid, sku, qty)
        x == UoW_exit([UoW_enter(UoW_new) EXCEPT !.events = r.events], BootHandlers, r.exc)
    IN  /\ r.exc = "ValueError"
        /\ x.rolled_back
        /\ x.raised = "ValueError"
        /\ r.w.orders[oid].lines = orders[oid].lines
        /\ r.w.inventory[sku] = inventory[sku] - qty

\* C23: rollback undoes nothing: add_item on an order that has left DRAFT,
\* with enough stock, fails without adding a line, and the stored quantity
\* of the sku stays decremented by qty.
C23_RollbackIsNoOp ==
    \A oid \in DOMAIN orders, sku \in DOMAIN Catalog, qty \in C21_Qtys :
        (orders[oid].status # "DRAFT" /\ sku \in DOMAIN inventory /\ qty <= inventory[sku])
            => C23_FailsAndKeepsReservation(oid, sku, qty)

RECURSIVE QtyOf(_, _)
\* the quantity of the sku in the lines
QtyOf(lines, sku) ==
    IF lines = <<>> THEN 0
    ELSE (IF Head(lines).sku = sku THEN Head(lines).qty ELSE 0) + QtyOf(Tail(lines), sku)

\* an add_item has just failed on an order out of DRAFT and stock is gone
\* that no line accounts for
C23_Witness ==
    /\ svcRet.op = "add_item"
    /\ svcRet.exc = "ValueError"
    /\ svcRet.err = "Can only add lines in DRAFT"
    /\ svcRet.order_id \in DOMAIN orders
    /\ orders[svcRet.order_id].status # "DRAFT"
    /\ \E sku \in DOMAIN inventory :
         inventory[sku] < InitialStock[sku] - QtyOf(orders[svcRet.order_id].lines, sku)

-----------------------------------------------------------------------------
(* Properties of repeated promotions, checked under SpecCheap              *)

\* the discount is within 30% of the subtotal, as int(round(.)) rounds it
C27_WithinCap(discount, subtotal) == 100 * discount <= 30 * subtotal + 50

\* the cumulative discount of every stored order is within the cap
C27_CumulativeWithinCap ==
    \A oid \in DOMAIN orders :
        C27_WithinCap(orders[oid].discount_total.amount, orders[oid].subtotal.amount)

\* C27: after any sequence of apply_promotions calls on an order, in any
\* status, the order's discount_total never exceeds 30% of its subtotal.
C27_DiscountTotalCapped == []C27_CumulativeWithinCap

\* what one apply_promotions call adds is within the cap, and the
\* cumulative discount is within the subtotal
C27_OneCallWithinCap ==
    (svcRet'.op = "apply_promotions" /\ svcRet'.order_id \in DOMAIN orders) =>
        LET o == orders[svcRet'.order_id]
            n == orders'[svcRet'.order_id]
        IN  /\ C27_WithinCap(n.discount_total.amount - o.discount_total.amount,
                             o.subtotal.amount)
            /\ n.discount_total.amount >= o.discount_total.amount
            /\ n.discount_total.amount <= n.subtotal.amount
            /\ n.subtotal = o.subtotal

\* an order promotions were applied to at most once is within the cap
C27_OnceWithinCap ==
    \A oid \in DOMAIN orders :
        CountOf(promoRuns, oid) <= 1 =>
            C27_WithinCap(orders[oid].discount_total.amount, orders[oid].subtotal.amount)

\* C27 as the code has it: each apply_promotions call adds at most 30% of
\* the subtotal and keeps discount_total within the subtotal; discount_total
\* is within 30% of the subtotal as long as promotions were applied to the
\* order at most once.
C27_CappedPerApplication ==
    []C27_OnceWithinCap /\ [][C27_OneCallWithinCap]_vars

\* the one application made to an order gave it exactly the cap
C27_Witness ==
    /\ svcRet.op = "apply_promotions"
    /\ svcRet.ret = "applied"
    /\ CountOf(promoRuns, svcRet.order_id) = 1
    /\ LET o == orders[svcRet.order_id]
       IN  /\ o.subtotal.amount > 0
           /\ 100 * o.discount_total.amount = 30 * o.subtotal.amount

-----------------------------------------------------------------------------
(* Properties of a customer's orders, checked under SpecTwo                *)

\* the customer's orders that reached PAID with a discount only
\* FirstPurchaseSpec can have given: the subtotal is below MinAmountSpec's
\* threshold
C28_PaidWithFirstPurchase(cid) ==
    {oid \in DOMAIN orders :
        /\ orders[oid].customer_id = cid
        /\ orders[oid].status \in {"PAID", "SHIPPED"}
        /\ orders[oid].subtotal.amount < MinAmountThreshold
        /\ orders[oid].discount_total.amount > 0}

\* C28: over any sequence of create_order, add_item, apply_promotions,
\* submit and checkout calls for one customer, at most one of the
\* customer's orders that reach PAID carries the first-purchase discount.
C28_FirstPurchaseOnce ==
    \A cid \in DOMAIN customers : Cardinality(C28_PaidWithFirstPurchase(cid)) <= 1

\* the gateway returned from a charge for the order, and the order's
\* PaymentReceived events carry the payment id that charge returned
C29_Charged(oid) ==
    \E k \in 1..Len(charges) :
        /\ charges[k].order_id = oid
        /\ PaymentEvents(orders[oid]) # {}
        /\ \A e \in PaymentEvents(orders[oid]) :
             orders[oid].events[e].payment_id = charges[k].payment_id

\* C29: whenever an order is PAID the gateway's charge was invoked for that
\* order's id and the payment id of the order's PaymentReceived event is the
\* one that charge returned, for any sequence of checkout calls, including
\* calls that reuse an idempotency key used for another order.
C29_PaidWasCharged ==
    \A oid \in DOMAIN orders :
        orders[oid].status \in {"PAID", "SHIPPED"} => C29_Charged(oid)

-----------------------------------------------------------------------------
(* Properties of the amount charged, checked under SpecCheap               *)

\* a PAID or SHIPPED order's grand_total is the amount of a charge made for it
C30_PaidAmountIsOwed ==
    \A oid \in DOMAIN orders :
        orders[oid].status \in {"PAID", "SHIPPED"} =>
            \E k \in 1..Len(charges) :
                /\ charges[k].order_id = oid
                /\ charges[k].amount = orders[oid].grand_total.amount

\* the totals of the orders that have left DRAFT stay as they are
C30_TotalsFrozen ==
    \A oid \in DOMAIN orders :
        orders[oid].status # "DRAFT" =>
            /\ orders'[oid].grand_total = orders[oid].grand_total
            /\ orders'[oid].discount_total = orders[oid].discount_total

\* C30: for every order that reaches PAID the amount passed to the
\* gateway's charge equals the order's grand_total, and grand_total and
\* discount_total do not change once the order has left DRAFT, whatever
\* service calls follow, apply_promotions included.
C30_ChargedAmountIsOwed ==
    []C30_PaidAmountIsOwed /\ [][C30_TotalsFrozen]_vars

\* a checkout that charges the gateway charges the order's grand_total, for
\* the order, and leaves the totals alone
C30_ChargesGrandTotal ==
    (svcRet'.op = "checkout" /\ Len(charges') > Len(charges)) =>
        LET c == charges'[Len(charges')]
            o == orders[svcRet'.order_id]
        IN  /\ Len(charges') = Len(charges) + 1
            /\ c.order_id = svcRet'.order_id
            /\ c.amount = o.grand_total.amount
            /\ c.amount = o.subtotal.amount - o.discount_total.amount
            /\ orders'[svcRet'.order_id].grand_total = o.grand_total
            /\ orders'[svcRet'.order_id].status = "PAID"

\* C30 as the code has it: checkout charges the grand_total the order has
\* at that moment; every call other than apply_promotions leaves the
\* grand_total and discount_total of an order out of DRAFT unchanged, while
\* apply_promotions changes them in any status.
C30_ChargedAmountAtCheckout ==
    [][C30_ChargesGrandTotal /\ (svcRet'.op # "apply_promotions" => C30_TotalsFrozen)]_vars

\* a checkout has just charged a discounted order
C30_Witness ==
    /\ svcRet.op = "checkout"
    /\ svcRet.exc = ""
    /\ svcRet.attempts = 1
    /\ orders[svcRet.order_id].status = "PAID"
    /\ orders[svcRet.order_id].discount_total.amount > 0
    /\ charges[Len(charges)].amount = orders[svcRet.order_id].grand_total.amount

-----------------------------------------------------------------------------
(* Properties of the lenient inventory policy, checked under SpecLenient   *)

\* reserve takes min(available, qty) from the sku's record and nothing else
C22_ReservesMin(sku, qty) ==
    LET p == LenientInventoryPolicy_reserve(inventory, sku, qty)
    IN  /\ p.ok
        /\ DOMAIN p.inventory = DOMAIN inventory
        /\ p.inventory[sku] = inventory[sku] - Min(inventory[sku], qty)
        /\ \A s \in DOMAIN inventory \ {sku} : p.inventory[s] = inventory[s]

\* add_item on a DRAFT order appends a line of the full qty
C22_LineOfFullQty(oid, sku, qty) ==
    LET r == Service_add_item_lenient(World, oid, sku, qty)
        l == r.w.orders[oid].lines
    IN  /\ r.exc = ""
        /\ Len(l) = Len(orders[oid].lines) + 1
        /\ l[Len(l)].sku = sku
        /\ l[Len(l)].qty = qty
        /\ r.w.inventory = LenientInventoryPolicy_reserve(inventory, sku, qty).inventory

\* C22: the lenient policy's reserve with qty > 0 takes exactly
\* min(available, qty) from the stored quantity and fails only when the sku
\* has no inventory record; add_item under it appends a line with the full
\* qty whatever was reserved.
C22_LenientReservesMin ==
    \A sku \in DOMAIN Catalog, qty \in C21_Qtys :
        /\ sku \in DOMAIN inventory => C22_ReservesMin(sku, qty)
        /\ ~LenientInventoryPolicy_reserve(WithoutRecord(inventory, sku), sku, qty).ok
        /\ \A oid \in DOMAIN orders :
             (orders[oid].status = "DRAFT" /\ sku \in DOMAIN inventory)
                 => C22_LineOfFullQty(oid, sku, qty)

\* an add_item has returned whose line asks for more than was in stock
C22_Witness ==
    /\ svcRet.op = "add_item"
    /\ svcRet.exc = ""
    /\ \E oid \in DOMAIN orders : \E k \in 1..Len(orders[oid].lines) :
         LET l == orders[oid].lines[k]
         IN  /\ l.qty > InitialStock[l.sku]
             /\ inventory[l.sku] = 0

-----------------------------------------------------------------------------
(* Properties of the pricing strategy, checked under SpecTwin              *)

RECURSIVE RawTotal(_)
\* sum of the catalogue price of each line's product times the line's qty
RawTotal(lines) ==
    IF lines = <<>> THEN 0
    ELSE Catalog[Head(lines).sku].price.amount * Head(lines).qty + RawTotal(Tail(lines))

\* C25: given the same create_order, add_item and apply_promotions calls,
\* the service with flat pricing and the one with tiered pricing answer
\* each call alike and hold orders with the same lines, subtotal,
\* discount_total and grand_total, the subtotal being the sum of raw unit
\* price times qty.
C25_PricingNeverInfluencesTotals ==
    /\ twinRet.exc["SimplePricing"] = twinRet.exc["TieredPricing"]
    /\ DOMAIN twin["SimplePricing"].orders = DOMAIN twin["TieredPricing"].orders
    /\ \A oid \in DOMAIN twin["SimplePricing"].orders :
         LET a == twin["SimplePricing"].orders[oid]
             b == twin["TieredPricing"].orders[oid]
         IN  /\ a.lines = b.lines
             /\ a.subtotal = b.subtotal
             /\ a.discount_total = b.discount_total
             /\ a.grand_total = b.grand_total
             /\ a.subtotal.amount = RawTotal(a.lines)
             /\ b.subtotal.amount = RawTotal(b.lines)

\* promotions were applied to an order with lines in two discounted tiers
C25_Witness ==
    /\ twinRet.op = "apply_promotions"
    /\ \E oid \in DOMAIN twin["TieredPricing"].orders :
         LET b == twin["TieredPricing"].orders[oid]
         IN  /\ Len(b.lines) = 2
             /\ b.lines[1].qty >= 10
             /\ b.lines[2].qty \in 5..9
             /\ b.discount_total.amount > 0

-----------------------------------------------------------------------------
(* Properties of the lookup cache, checked under SpecLru                   *)

\* the cache holds at most maxsize keys
C26_AtMostMaxsize == Cardinality(DOMAIN lru.cache) <= MaxCacheSize

RECURSIVE C26_LeastRecent(_, _)
\* the cached key whose last lookup is the oldest
C26_LeastRecent(used, cached) ==
    IF Head(used) \in cached THEN Head(used) ELSE C26_LeastRecent(Tail(used), cached)

\* a call that evicts a key evicts the least recently looked up one
C26_EvictsLeastRecent ==
    lruRet'.op = "call" =>
        \A e \in lruRet'.evicted : e = C26_LeastRecent(lruUsed, DOMAIN lru.cache)

\* C26: the cache holds at most maxsize keys after any sequence of lookups,
\* and the key removed when a new key overflows it is the one whose last
\* lookup, hit or miss, is the oldest: not a key that was just hit.
C26_LruEviction ==
    []C26_AtMostMaxsize /\ [][C26_EvictsLeastRecent]_vars

-----------------------------------------------------------------------------
(* Properties of concurrent reservations, checked under SpecReserve        *)

\* both threads have returned from add_item
C20_RsvOver == \A t \in Threads : rsv[t].pc = "done"

\* what the threads whose policy.reserve returned reserved of the sku
C20_Reserved(sku) ==
    LET q(t) == IF rsv[t].reserved /\ rsv[t].sku = sku THEN rsv[t].qty ELSE 0
    IN  q(1) + q(2)

\* C20: when two threads reserve through add_item with the strict policy,
\* in every interleaving the stored quantity of each sku ends as the
\* initial quantity minus the quantities successfully reserved, and the
\* quantities reserved never exceed the initial quantity.
C20_NoLostUpdateNoOversell ==
    \A sku \in DOMAIN InitialStock :
        /\ C20_Reserved(sku) <= InitialStock[sku]
        /\ C20_RsvOver => inventory[sku] = InitialStock[sku] - C20_Reserved(sku)

-----------------------------------------------------------------------------
(* Properties of concurrent checkouts, checked under SpecRace              *)

\* both threads called checkout with the same key, no invocation of the
\* gateway raised, and both calls are over
C2_RaceOver ==
    /\ \A t \in Threads : thr[t].pc = "done"
    /\ \A s, t \in Threads : thr[s].key = thr[t].key
    /\ FailedCharges(World) = 0

\* C2: when two threads call checkout at the same time with the same,
\* previously unused idempotency key, the gateway's charge is invoked
\* exactly once in every interleaving.
C2_ChargeInvokedOnce == C2_RaceOver => gatewayCalls = 1

\* the PaymentReceived events the order carries
C31_PaymentEvents ==
    {k \in 1..Len(orders[RaceOrderId].events) :
        orders[RaceOrderId].events[k].type = "PaymentReceived"}

\* C31: when two threads call checkout at the same time on one SUBMITTED
\* order, with equal or distinct idempotency keys, in every interleaving
\* the gateway's charge returns at most once for the order (and is invoked
\* at most once when no invocation raises), and the order emits at most
\* one PaymentReceived event.
C31_ChargedAtMostOnce ==
    /\ Len(charges) <= 1
    /\ FailedCharges(World) = 0 => gatewayCalls <= 1
    /\ Cardinality(C31_PaymentEvents) <= 1

-----------------------------------------------------------------------------
(* Properties of a failing add_line, checked under SpecOrder               *)

\* the subtotal is the sum of the line totals of the order
C32_SubtotalIsSum(o) ==
    LET r == RecalcLoop(o.lines, 1, Money_zero)
    IN  r.ok /\ r.subtotal = o.subtotal

C32_FailedAddLineStep ==
    (aggRet'.op = "add_line" /\ ~aggRet'.ok) =>
        /\ agg'.lines = agg.lines
        /\ agg'.subtotal = agg.subtotal
        /\ agg'.discount_total = agg.discount_total
        /\ agg'.grand_total = agg.grand_total
        /\ C32_SubtotalIsSum(agg) => C32_SubtotalIsSum(agg')

\* C32: an add_line call that raises (wrong status, qty <= 0, or a product
\* priced in another currency than the totals) leaves the order's lines,
\* subtotal, discount_total and grand_total as they were before the call,
\* so the subtotal still equals the sum of the line totals.
C32_FailedAddLineLeavesOrder == [][C32_FailedAddLineStep]_vars

-----------------------------------------------------------------------------
(* Properties of the product repository, checked under SpecRepo            *)

C33_GetAfterAddStep ==
    (repoKind = "products" /\ repoRet'.op = "get"
        /\ repoRet'.id \in DOMAIN repoStore) =>
        /\ repoRet'.found
        /\ repoRet'.data = repoStore[repoRet'.id]

\* C33: in the product repository a get of a SKU made after an add of a
\* product with that SKU returns the product added last, whatever get and
\* add calls came before: a get of the SKU before it was added, or an add
\* replacing the product stored for the SKU.
C33_ProductReadYourWrites == [][C33_GetAfterAddStep]_vars

=============================================================================
